---- MODULE Spec2Model ----
(***************************************************************************)
(* The schema conversion engine of openapi-to-mcp: SchemaConverter.convert, *)
(* its seven handlers and ReferenceHandler.resolve_ref, as a state machine *)
(* with an explicit call stack (one frame per active convert call).        *)
(*                                                                         *)
(* JSON values are tagged records.  A Python str is the sequence of its    *)
(* lexical atoms (short TLA+ strings such as "#", "/", "defs"); the atoms  *)
(* are chosen so that a string has one tokenisation, which makes           *)
(* startswith, split("/") and concatenation computable.  A dict carries    *)
(* its content m and, for dicts of the source document, its iteration      *)
(* order ord; dicts built by the converter have ord = << >>, so that they  *)
(* compare by content as Python dicts do.                                  *)
(***************************************************************************)
EXTENDS Integers, Sequences, FiniteSets, TLC

VARIABLES full_spec, input_obj, visited_refs, stack, ret, calls, results, resolved,
          mapper, naming

vars == <<full_spec, input_obj, visited_refs, stack, ret, calls, results, resolved,
          mapper, naming>>

\* The state of the Mapper and of a call of generate_tool_name.
mvars == <<mapper, naming>>

-----------------------------------------------------------------------------
(* Bounds *)

MaxCalls == 2
MaxDepth == 9
MaxLiveCalls == 1

-----------------------------------------------------------------------------
(* JSON values *)

None == [k |-> "null"]
Str(s) == [k |-> "str", s |-> s]
Num(n) == [k |-> "num", n |-> n]
Bool(b) == [k |-> "bool", b |-> b]
List(xs) == [k |-> "list", xs |-> xs]
Dict(ord, m) == [k |-> "map", ord |-> ord, m |-> m]

S(a) == Str(<<a>>)

RECURSIVE PairsToFn(_)
PairsToFn(ps) ==
    IF ps = <<>> THEN <<>>
    ELSE (ps[Len(ps)][1] :> ps[Len(ps)][2]) @@ PairsToFn(SubSeq(ps, 1, Len(ps) - 1))

\* A dict literal of the source document, keys in the given order.
D(ps) == Dict([i \in 1..Len(ps) |-> ps[i][1]], PairsToFn(ps))

\* A dict built by the converter from the content f.
O(f) == Dict(<<>>, f)

isinstance_dict(v) == v.k = "map"
isinstance_list(v) == v.k = "list"
isinstance_str(v) == v.k = "str"
isinstance_bool(v) == v.k = "bool"
isinstance_num(v) == v.k = "num"

Has(d, key) == key \in DOMAIN d.m
Get(d, key) == IF Has(d, key) THEN d.m[key] ELSE None

\* Python truth value of a JSON value.
Truthy(v) ==
    CASE v.k = "null" -> FALSE
      [] v.k = "str" -> v.s # <<>>
      [] v.k = "num" -> v.n # 0
      [] v.k = "bool" -> v.b
      [] v.k = "list" -> v.xs # <<>>
      [] v.k = "map" -> DOMAIN v.m # {}

\* f with the keys of g set to g's values (dict.update on the content).
Update(f, g) == g @@ f

\* f with key set to v.
Put(f, key, v) == (key :> v) @@ f

\* f without key (dict.pop(key, None)).
Pop(f, key) == [x \in DOMAIN f \ {key} |-> f[x]]

\* Copies the keys of keys present in the source dict os into f.
CopyKeys(os, f, keys) ==
    [x \in DOMAIN f \cup {y \in keys : Has(os, y)} |->
        IF x \in keys /\ Has(os, x) THEN os.m[x] ELSE f[x]]

-----------------------------------------------------------------------------
(* Strings of the reference handler *)

UNRESOLVED == "Unresolved reference:"
CYCLIC == "Cyclic reference detected:"
NOT_OBJECT == "Resolved reference is not an object:"
MARKER == "_is_cyclic_reference"

\* str(v) as an f-string renders it, for the values a $ref holds in the model.
NumAtom == (0 :> "0") @@ (1 :> "1") @@ (5 :> "5")
Fmt(v) == IF v.k = "str" THEN v.s ELSE IF v.k = "num" THEN <<NumAtom[v.n]>> ELSE <<"?">>

\* s.startswith(prefixes), for a string s whose first atom is the prefix.
startswith(s, prefixes) == s # <<>> /\ s[1] \in prefixes

UnresolvedPlaceholder(ref) ==
    O("description" :> Str(<<UNRESOLVED, " ">> \o Fmt(ref)))
NotObjectPlaceholder(ref) ==
    O("description" :> Str(<<NOT_OBJECT, " ">> \o Fmt(ref)))
CyclicDescription(ref) == Str(<<CYCLIC, " ">> \o Fmt(ref))
FromRef(ref) == <<"(from ref: ">> \o Fmt(ref) \o <<")">>

-----------------------------------------------------------------------------
(* ReferenceHandler.resolve_ref *)

\* ref[2:].split("/") on atoms: the parts between the "/" atoms.
Split(s) ==
    LET slashes == {i \in 1..Len(s) : s[i] = "/"}
        n == Cardinality(slashes)
        \* the place of the k-th "/"; 0 and Len(s) + 1 stand for the two ends
        cut(k) == IF k = 0 THEN 0
                  ELSE IF k = n + 1 THEN Len(s) + 1
                  ELSE CHOOSE i \in slashes : Cardinality({j \in slashes : j <= i}) = k
    IN  [k \in 1..(n + 1) |-> SubSeq(s, cut(k - 1) + 1, cut(k) - 1)]

\* requests.utils.unquote on one atom: the percent escapes of the model.
UnquoteAtom(a) ==
    CASE a = "%41" -> "A"
      [] a = "%42" -> "B"
      [] OTHER -> a

RECURSIVE JoinAtoms(_)
JoinAtoms(p) == IF p = <<>> THEN "" ELSE UnquoteAtom(p[1]) \o JoinAtoms(Tail(p))

unquote(part) == JoinAtoms(part)

\* int(s): the numerals of the model; any other string is a ValueError.
IntTable == ("0" :> 0) @@ ("1" :> 1) @@ ("2" :> 2) @@ ("-1" :> -1) @@ ("-3" :> -3)
IsInt(s) == s \in DOMAIN IntTable

Failure == [k |-> "raise"]

\* current[int(decoded_part)] on a Python list: negative indexes count from
\* the end; IndexError outside -len..len-1, ValueError for a non-numeral.
ListIndex(xs, decoded) ==
    IF ~IsInt(decoded) THEN Failure
    ELSE LET i == IntTable[decoded] IN
         IF i >= 0 /\ i < Len(xs) THEN xs[i + 1]
         ELSE IF i < 0 /\ -i <= Len(xs) THEN xs[Len(xs) + i + 1]
         ELSE Failure

\* current[decoded_part]; Failure stands for the KeyError, IndexError,
\* ValueError or TypeError the except clause catches.
Subscript(current, decoded_part) ==
    IF isinstance_list(current) THEN ListIndex(current.xs, decoded_part)
    ELSE IF isinstance_dict(current)
         THEN IF Has(current, decoded_part) THEN current.m[decoded_part] ELSE Failure
    ELSE Failure

\* The for loop of resolve_ref over the parts: at[i] is current after i
\* iterations, or Failure once an iteration has raised.
Traverse(spec, parts) ==
    LET at[i \in 0..Len(parts)] ==
            IF i = 0 THEN spec
            ELSE IF at[i - 1] = Failure THEN Failure
            ELSE Subscript(at[i - 1], unquote(parts[i]))
    IN  at[Len(parts)]

\* What resolve_ref returns once the loop has ended with current, or has
\* raised (Failure).
Resolved(current, ref) ==
    IF current = Failure THEN UnresolvedPlaceholder(ref)
    ELSE IF ~isinstance_dict(current) THEN NotObjectPlaceholder(ref)
    ELSE current

\* resolve_ref(ref) on the document spec.  Failure: the call raises
\* (ref is not a str, so ref.startswith is an AttributeError).  The bound
\* variable holds the outcome of the loop, which is computed once.
resolve_ref(spec, ref) ==
    IF ~isinstance_str(ref) THEN Failure
    ELSE IF ~(Len(ref.s) >= 2 /\ ref.s[1] = "#" /\ ref.s[2] = "/")
         THEN UnresolvedPlaceholder(ref)
    ELSE CHOOSE r \in {Resolved(current, ref) :
                          current \in {Traverse(spec, Split(SubSeq(ref.s, 3, Len(ref.s))))}} :
             TRUE

-----------------------------------------------------------------------------
(* The list objects json_schema shares with the source *)

\* json_schema["type"] = schema_type stores the very object the source
\* holds.  A str cannot change, so it is held as a value; a list is held as
\* a reference to its place: root is "spec" (the document) or "input" (the
\* fragment the caller of convert passed), path the subscripts that lead to
\* the list.
Alias(root, path) == [k |-> "alias", root |-> root, path |-> path]

\* The place of a fragment: the subscripts that lead to it from its root.
Loc(root, path) == [root |-> root, path |-> path]

\* The subscript of the i-th element of a list.
IndexKey(i) == CHOOSE s \in DOMAIN IntTable : IntTable[s] = i - 1

\* The value the subscripts of path lead to from v.
At(v, path) ==
    LET at[i \in 0..Len(path)] ==
            IF i = 0 THEN v ELSE Subscript(at[i - 1], path[i])
    IN  at[Len(path)]

\* v after append("null") on the list that path leads to.
RECURSIVE AppendNull(_, _)
AppendNull(v, path) ==
    IF path = <<>> THEN List(Append(v.xs, S("null")))
    ELSE IF isinstance_dict(v)
         THEN [v EXCEPT !.m[path[1]] = AppendNull(@, Tail(path))]
    ELSE LET i == IntTable[path[1]] IN
         LET pos == IF i >= 0 THEN i + 1 ELSE Len(v.xs) + i + 1 IN
         [v EXCEPT !.xs[pos] = AppendNull(@, Tail(path))]

\* The content of v as a reader sees it when the document is spec and the
\* caller's fragment is input: every shared list shows its current content.
RECURSIVE Snapshot(_, _, _)
Snapshot(v, spec, input) ==
    CASE v.k = "alias" -> At(IF v.root = "spec" THEN spec ELSE input, v.path)
      [] v.k = "list" -> List([i \in 1..Len(v.xs) |-> Snapshot(v.xs[i], spec, input)])
      [] v.k = "map" -> Dict(v.ord, [x \in DOMAIN v.m |-> Snapshot(v.m[x], spec, input)])
      [] OTHER -> v

-----------------------------------------------------------------------------
(* SchemaConverter._infer_type and the pure handlers *)

\* _infer_type: "object" for properties, "array" for items, else None.
_infer_type(os) ==
    IF Has(os, "properties") THEN S("object")
    ELSE IF Has(os, "items") THEN S("array")
    ELSE None

\* openapi_schema.get("type") or self._infer_type(openapi_schema)
schema_type(os) == IF Truthy(Get(os, "type")) THEN Get(os, "type") ELSE _infer_type(os)

\* The json_schema a convert call starts its handler loop with.
InitialJsonSchema(os) ==
    IF Truthy(schema_type(os)) THEN ("type" :> schema_type(os)) ELSE <<>>

\* The same for the fragment os found at loc: a list-valued type is the
\* list of the source itself.
InitialJsonSchemaAt(os, loc) ==
    IF isinstance_list(schema_type(os))
    THEN ("type" :> Alias(loc.root, Append(loc.path, "type")))
    ELSE InitialJsonSchema(os)

known_formats ==
    {"date", "date-time", "time", "duration", "email", "idn-email", "hostname",
     "idn-hostname", "ipv4", "ipv6", "uri", "uri-reference", "iri",
     "iri-reference", "uuid", "json-pointer", "relative-json-pointer", "regex",
     "byte", "binary", "password"}

StringCanHandle(os) == Get(os, "type") = S("string")

StringHandle(os, js) ==
    LET j1 == IF "type" \in DOMAIN js THEN js ELSE Put(js, "type", S("string")) IN
    LET j2 == CopyKeys(os, j1, {"enum"}) IN
    LET fmt == Get(os, "format") IN
    LET j3 == IF Has(os, "format") /\ isinstance_str(fmt) /\ Len(fmt.s) = 1
                 /\ fmt.s[1] \in known_formats
              THEN Put(j2, "format", fmt) ELSE j2
    IN  CopyKeys(os, j3, {"pattern", "minLength", "maxLength"})

NumberCanHandle(os) == Get(os, "type") \in {S("integer"), S("number")}

\* exclusiveMinimum / exclusiveMaximum: a bool flag copies the boundary, a
\* number is copied, anything else removes the keyword.
Exclusive(os, js, excl, bound) ==
    IF ~Has(os, excl) THEN js
    ELSE LET e == os.m[excl] IN
         IF isinstance_bool(e)
         THEN IF e.b /\ Has(os, bound) THEN Put(js, excl, os.m[bound]) ELSE js
         ELSE IF isinstance_num(e) THEN Put(js, excl, e)
         ELSE Pop(js, excl)

NumberHandle(os, js) ==
    LET j1 == IF "type" \in DOMAIN js THEN js ELSE Put(js, "type", Get(os, "type")) IN
    LET j2 == CopyKeys(os, j1, {"format"}) IN
    LET j3 == CopyKeys(os, j2, {"minimum", "maximum", "multipleOf"}) IN
    LET j4 == Exclusive(os, j3, "exclusiveMinimum", "minimum") IN
    Exclusive(os, j4, "exclusiveMaximum", "maximum")

\* CommonSchemaHandler._copy_common_keywords
_copy_common_keywords(os, js) ==
    LET j1 == CopyKeys(os, js,
                 {"description", "title", "default", "readOnly", "writeOnly", "deprecated"})
    IN  IF Has(os, "example") THEN Put(j1, "examples", List(<<os.m["example"]>>)) ELSE j1

\* "null" not in current_type, for a list
NullNotIn(xs) == \A i \in 1..Len(xs) : xs[i] # S("null")

\* A nullable handling that does not look for "null".
_handle_nullable_unchecked(os, js) ==
    IF Truthy(Get(os, "nullable")) /\ "type" \in DOMAIN js
    THEN LET current_type == js["type"] IN
         IF isinstance_list(current_type)
         THEN Put(js, "type", List(Append(current_type.xs, S("null"))))
         ELSE Put(js, "type", List(<<current_type, S("null")>>))
    ELSE js

\* CommonSchemaHandler._handle_nullable
_handle_nullable(os, js) ==
    IF Truthy(Get(os, "nullable")) /\ "type" \in DOMAIN js
    THEN LET current_type == js["type"] IN
         IF isinstance_list(current_type)
         THEN IF NullNotIn(current_type.xs)
              THEN Put(js, "type", List(Append(current_type.xs, S("null"))))
              ELSE js
         ELSE IF current_type # S("null")
              THEN Put(js, "type", List(<<current_type, S("null")>>))
              ELSE js
    ELSE js

CommonHandle(os, js) == _handle_nullable(os, _copy_common_keywords(os, js))

-----------------------------------------------------------------------------
(* The handlers that call convert: the sub-schemas they convert, in call *)
(* order, and the json_schema they build from the converted results      *)

CompositionCanHandle(os) ==
    \E key \in {"allOf", "anyOf", "oneOf", "not"} : Has(os, key)

\* valid_items = [s for s in comp_value if isinstance(s, dict)]
RECURSIVE valid_items(_)
valid_items(xs) ==
    IF xs = <<>> THEN <<>>
    ELSE IF isinstance_dict(xs[1]) THEN <<xs[1]>> \o valid_items(Tail(xs))
    ELSE valid_items(Tail(xs))

comp_keys == <<"allOf", "oneOf", "anyOf", "not">>

\* The schemas CompositionHandler.handle converts for one keyword.
CompCallsOf(os, comp_key) ==
    LET comp_value == Get(os, comp_key) IN
    IF comp_key = "not" /\ isinstance_dict(comp_value) THEN <<comp_value>>
    ELSE IF comp_key # "not" /\ isinstance_list(comp_value) THEN valid_items(comp_value.xs)
    ELSE <<>>

RECURSIVE CompCallsFrom(_, _)
CompCallsFrom(os, i) ==
    IF i > Len(comp_keys) THEN <<>>
    ELSE CompCallsOf(os, comp_keys[i]) \o CompCallsFrom(os, i + 1)

CompositionCalls(os) == CompCallsFrom(os, 1)

\* The subscripts that lead from the schema to the schemas of CompCallsOf.
RECURSIVE valid_paths(_, _, _)
valid_paths(comp_key, xs, i) ==
    IF i > Len(xs) THEN <<>>
    ELSE IF isinstance_dict(xs[i])
         THEN << <<comp_key, IndexKey(i)>> >> \o valid_paths(comp_key, xs, i + 1)
    ELSE valid_paths(comp_key, xs, i + 1)

CompPathsOf(os, comp_key) ==
    LET comp_value == Get(os, comp_key) IN
    IF comp_key = "not" /\ isinstance_dict(comp_value) THEN << <<"not">> >>
    ELSE IF comp_key # "not" /\ isinstance_list(comp_value)
         THEN valid_paths(comp_key, comp_value.xs, 1)
    ELSE <<>>

RECURSIVE CompPathsFrom(_, _)
CompPathsFrom(os, i) ==
    IF i > Len(comp_keys) THEN <<>>
    ELSE CompPathsOf(os, comp_keys[i]) \o CompPathsFrom(os, i + 1)

CompositionPaths(os) == CompPathsFrom(os, 1)

\* json_schema after the loop of CompositionHandler.handle, given the
\* results of its convert calls in call order.
RECURSIVE CompBuildFrom(_, _, _, _)
CompBuildFrom(os, js, rs, i) ==
    IF i > Len(comp_keys) THEN js
    ELSE LET comp_key == comp_keys[i] IN
         LET n == Len(CompCallsOf(os, comp_key)) IN
         LET mine == SubSeq(rs, 1, n) IN
         LET j1 == IF n = 0 THEN js
                   ELSE IF comp_key = "not" THEN Put(js, comp_key, mine[1])
                   ELSE Put(js, comp_key, List(mine))
         IN  CompBuildFrom(os, j1, SubSeq(rs, n + 1, Len(rs)), i + 1)

\* A handler that keeps an empty list for a list without map entries.
CompositionBuild_empty_lists(os, js, rs) ==
    LET j == CompBuildFrom(os, js, rs, 1) IN
    LET empty == {key \in {"allOf", "oneOf", "anyOf"} :
                     isinstance_list(Get(os, key)) /\ key \notin DOMAIN j} IN
    [key \in DOMAIN j \cup empty |-> IF key \in DOMAIN j THEN j[key] ELSE List(<<>>)]

CompositionBuild(os, js, rs) == CompBuildFrom(os, js, rs, 1)

ObjectCanHandle(os) == Get(os, "type") = S("object") \/ Has(os, "properties")

\* The property names ObjectSchemaHandler.handle iterates, in dict order.
PropNames(os) ==
    IF Has(os, "properties") /\ isinstance_dict(os.m["properties"])
    THEN os.m["properties"].ord ELSE <<>>

ObjectCalls(os) ==
    LET names == PropNames(os) IN
    LET add_props == Get(os, "additionalProperties") IN
    [i \in 1..Len(names) |-> os.m["properties"].m[names[i]]]
        \o (IF isinstance_dict(add_props) THEN <<add_props>> ELSE <<>>)

\* The subscripts that lead from the schema to the schemas of ObjectCalls.
ObjectPaths(os) ==
    LET names == PropNames(os) IN
    [i \in 1..Len(names) |-> <<"properties", names[i]>>]
        \o (IF isinstance_dict(Get(os, "additionalProperties"))
            THEN << <<"additionalProperties">> >> ELSE <<>>)

ObjectBuild(os, js, rs) ==
    LET names == PropNames(os) IN
    LET add_props == Get(os, "additionalProperties") IN
    LET j1 == IF "type" \in DOMAIN js THEN js ELSE Put(js, "type", S("object")) IN
    LET props == [x \in {names[i] : i \in 1..Len(names)} |->
                     rs[CHOOSE i \in 1..Len(names) :
                           names[i] = x /\ \A l \in (i + 1)..Len(names) : names[l] # x]] IN
    LET j2 == Put(j1, "properties", O(props)) IN
    LET j3 == Put(j2, "required",
                  IF Has(os, "required") THEN os.m["required"] ELSE List(<<>>)) IN
    IF isinstance_bool(add_props) THEN Put(j3, "additionalProperties", add_props)
    ELSE IF isinstance_dict(add_props)
         THEN Put(j3, "additionalProperties", rs[Len(rs)])
    ELSE j3

ArrayCanHandle(os) == Get(os, "type") = S("array") \/ Has(os, "items")

\* openapi_schema.get("items", {})
ArrayCalls(os) == <<IF Has(os, "items") THEN os.m["items"] ELSE O(<<>>)>>

\* The subscript that leads from the schema to its items (the default {}
\* is a new object, which holds no list).
ArrayPaths(os) == << <<"items">> >>

ArrayBuild(os, js, rs) ==
    LET j1 == IF "type" \in DOMAIN js THEN js ELSE Put(js, "type", S("array")) IN
    LET j2 == Put(j1, "items", rs[1]) IN
    CopyKeys(os, j2, {"minItems", "maxItems", "uniqueItems"})

-----------------------------------------------------------------------------
(* The documents and the fragments the model converts *)

RefA == Str(<<"#", "/", "defs", "/", "A">>)
RefB == Str(<<"#", "/", "defs", "/", "B">>)
RefAEscaped == Str(<<"#", "/", "defs", "/", "%41">>)
RefMissing == Str(<<"#", "/", "defs", "/", "X">>)
RefNumber == Str(<<"#", "/", "defs", "/", "n">>)
RefExternal == Str(<<"other.yaml", "#", "/", "defs", "/", "A">>)

Ref(r) == D(<< <<"$ref", r>> >>)
TString == D(<< <<"type", S("string")>> >>)
TInteger == D(<< <<"type", S("integer")>>, <<"format", S("int64")>> >>)
Described(d) == D(<< <<"type", S("string")>>, <<"description", d>> >>)
Props(name, x) == D(<< <<"properties", D(<< <<name, x>> >>)>> >>)

\* A document with the schemas a and b under #/defs/A and #/defs/B, a list
\* under #/defs/L and a number under #/defs/n.
Doc(a, b) ==
    D(<< <<"defs", D(<< <<"A", a>>, <<"B", b>>,
                        <<"L", List(<<TString, TInteger>>)>>,
                        <<"n", Num(5)>> >>)>> >>)

Doc0 == Doc(TString, TInteger)

Docs ==
    { Doc0,
      Doc(Described(S("D")), TInteger),
      Doc(D(<< <<"type", S("string")>>, <<"nullable", Bool(TRUE)>> >>), TInteger),
      Doc(Described(Num(5)), TInteger),
      Doc(Described(Str(<<CYCLIC, " ", "D">>)), TInteger),
      Doc(Ref(RefA), TInteger),
      Doc(Ref(RefB), Ref(RefA)),
      Doc(Ref(RefB), Described(S("D"))),
      Doc(Ref(RefB), Ref(RefAEscaped)),
      Doc(Props("b", Ref(RefB)), Props("a", Ref(RefA))),
      Doc(Props("b", Ref(RefB)), Ref(RefA)),
      Doc(D(<< <<"type", S("object")>>, <<"properties", D(<< <<"s", Ref(RefA)>> >>)>>,
               <<"required", List(<<S("s")>>)>> >>), TInteger),
      Doc(D(<< <<"properties", D(<< <<"x", Ref(RefB)>>, <<"y", Ref(RefB)>> >>)>> >>),
          TInteger),
      Doc(D(<< <<"type", S("array")>>, <<"items", Ref(RefB)>>, <<"minItems", Num(1)>> >>),
          D(<< <<"items", Ref(RefA)>> >>)),
      Doc(D(<< <<"allOf", List(<<Ref(RefB), S("junk"), TString>>)>> >>),
          D(<< <<"not", Ref(RefA)>> >>)),
      Doc(D(<< <<"type", S("object")>>, <<"additionalProperties", Ref(RefB)>> >>),
          D(<< <<"anyOf", List(<<Ref(RefA)>>)>>, <<"oneOf", List(<<Num(1)>>)>>,
               <<"additionalProperties", Bool(FALSE)>>, <<"properties", S("junk")>> >>)) }

\* Fragments whose conversion does not depend on the document's schemas.
GenericInputs ==
    { None, S("not a dict"), List(<<>>), Num(5),
      Ref(RefMissing),
      D(<< <<"$ref", RefMissing>>, <<"description", S("R")>> >>),
      Ref(RefNumber),
      Ref(RefExternal),
      D(<< <<"$ref", Num(5)>>, <<"type", S("string")>>, <<"description", S("R")>> >>),
      D(<< <<"$ref", List(<<>>)>>, <<"type", S("integer")>> >>),
      D(<< <<"type", S("string")>>, <<"nullable", Bool(TRUE)>>, <<"format", S("uuid")>>,
           <<"example", S("e")>> >>),
      D(<< <<"type", S("string")>>, <<"nullable", Bool(FALSE)>>, <<"format", S("nope")>> >>),
      D(<< <<"type", S("null")>>, <<"nullable", Bool(TRUE)>> >>),
      D(<< <<"type", List(<<S("string")>>)>>, <<"nullable", Bool(TRUE)>> >>),
      D(<< <<"type", List(<<S("null"), S("string")>>)>>, <<"nullable", Bool(TRUE)>> >>),
      D(<< <<"nullable", Bool(TRUE)>>, <<"title", S("t")>> >>),
      D(<< <<"properties", D(<< <<"q", S("junk")>>, <<"r", TString>> >>)>>,
           <<"additionalProperties", Bool(TRUE)>>, <<"items", None>> >>),
      D(<< <<"type", S("number")>>, <<"minimum", Num(0)>>, <<"maximum", Num(5)>>,
           <<"exclusiveMinimum", Bool(TRUE)>>, <<"exclusiveMaximum", S("junk")>> >>),
      D(<< <<"allOf", List(<<>>)>>, <<"anyOf", S("junk")>>,
           <<"oneOf", List(<<TString, Num(5), TInteger>>)>>,
           <<"not", List(<<TString>>)>> >>),
      D(<< <<"$ref", RefMissing>>, <<"type", S("string")>>, <<"format", S("uuid")>> >>) }

\* Fragments that refer to the document's schema A.
RefInputs ==
    { Ref(RefA),
      D(<< <<"$ref", RefA>>, <<"description", S("R")>> >>),
      D(<< <<"$ref", RefA>>, <<"nullable", Bool(TRUE)>> >>),
      Props("p", Ref(RefA)) }

Inputs(doc) ==
    RefInputs \cup {doc.m["defs"].m["A"]} \cup (IF doc = Doc0 THEN GenericInputs ELSE {})

\* The reference strings resolve_ref is called with directly.
RefStrings ==
    { RefA, RefAEscaped, RefMissing, RefNumber, RefExternal,
      Str(<<"#", "/", "defs">>),
      Str(<<"#", "/", "defs", "/", "L", "/", "0">>),
      Str(<<"#", "/", "defs", "/", "L", "/", "1">>),
      Str(<<"#", "/", "defs", "/", "L", "/", "2">>),
      Str(<<"#", "/", "defs", "/", "L", "/", "-1">>),
      Str(<<"#", "/", "defs", "/", "L", "/", "-3">>),
      Str(<<"#", "/", "defs", "/", "L", "/", "x">>),
      Str(<<"#", "/", "defs", "/", "L">>),
      Str(<<"#", "/", "defs", "/", "n", "/", "x">>),
      Str(<<"#", "/", "defs", "/", "A", "/", "type">>),
      Str(<<"#", "/", "defs", "/", "A", "/", "type", "/", "0">>),
      Str(<<"#", "/">>), Str(<<"#">>), Str(<<>>),
      Num(5) }

-----------------------------------------------------------------------------
(* SchemaConverter.convert as a stack machine *)

NoRet == [k |-> "none"]

\* No operation is being mapped.
NoOp == [k |-> "none"]

\* A Mapper on which map_tools has not been called.  pc is the position of
\* map_tools, pi and mi the entries its two loops have reached, op the
\* locals of _map_operation_to_tool, mcp_tools is self.mcp_tools and outs
\* the outcomes of the calls of map_tools so far.  mapped, failed and
\* schemas are history: the (path, method) entry of every tool, the entries
\* whose mapping raised, and for every tool the param_schema_json of each
\* parameter it kept.
NoMapper ==
    [pc |-> "idle", calls |-> 0, outs |-> <<>>, mcp_tools |-> <<>>,
     mapped |-> <<>>, failed |-> <<>>, schemas |-> <<>>, pi |-> 0, mi |-> 0,
     op |-> NoOp]

H_REFERENCE == 1
H_COMPOSITION == 2
H_OBJECT == 3
H_ARRAY == 4
H_STRING == 5
H_NUMBER == 6
H_COMMON == 7

\* handler.can_handle(openapi_schema) for the i-th handler of self._handlers
CanHandle(i, os) ==
    CASE i = H_REFERENCE -> Has(os, "$ref")
      [] i = H_COMPOSITION -> CompositionCanHandle(os)
      [] i = H_OBJECT -> ObjectCanHandle(os)
      [] i = H_ARRAY -> ArrayCanHandle(os)
      [] i = H_STRING -> StringCanHandle(os)
      [] i = H_NUMBER -> NumberCanHandle(os)
      [] i = H_COMMON -> TRUE

\* The frame of a convert(x) call that has run up to its handler loop:
\* h handlers have been passed by the loop, ran lists the ones applied,
\* wait is the handler suspended in a call of convert (0: none).
Enter(x, visited, loc) ==
    [schema |-> x, loc |-> loc,
     js |-> IF isinstance_dict(x) THEN InitialJsonSchemaAt(x, loc) ELSE <<>>,
     h |-> 0, wait |-> 0, todo |-> <<>>, acc |-> <<>>,
     cyc |-> FALSE, ran |-> <<>>, raised |-> {}, v0 |-> visited]

Top == stack[Len(stack)]
SetTop(f) == [stack EXCEPT ![Len(stack)] = f]

\* The loop has reached handler i of the top frame and it applies.
Turn(i) ==
    /\ stack # <<>>
    /\ isinstance_dict(Top.schema)
    /\ Top.h < i
    /\ CanHandle(i, Top.schema)
    /\ \A j \in (Top.h + 1)..(i - 1) : ~CanHandle(j, Top.schema)

\* A loop that ends before the catch-all handler.
LoopDone_without_common(f) ==
    IF isinstance_dict(f.schema)
    THEN \A j \in (f.h + 1)..H_NUMBER : ~CanHandle(j, f.schema)
    ELSE TRUE

\* The loop of the top frame is over (or the input was no dict).
LoopDone(f) ==
    IF isinstance_dict(f.schema)
    THEN \A j \in (f.h + 1)..H_COMMON : ~CanHandle(j, f.schema)
    ELSE TRUE

\* Handler i returned normally with json_schema = js.
Handled(f, i, js) ==
    [f EXCEPT !.js = js, !.h = i, !.wait = 0, !.todo = <<>>, !.acc = <<>>,
              !.cyc = @ \/ (MARKER \in DOMAIN js /\ Truthy(js[MARKER])),
              !.ran = Append(@, i)]

\* A loop that a raising handler ends.
RaisedAborts(f, i) ==
    [f EXCEPT !.h = H_COMMON, !.wait = 0, !.todo = <<>>, !.acc = <<>>,
              !.ran = Append(@, i), !.raised = @ \cup {i}]

\* Handler i raised; convert logs a warning and goes on.
Raised(f, i) ==
    [f EXCEPT !.h = i, !.wait = 0, !.todo = <<>>, !.acc = <<>>,
              !.ran = Append(@, i), !.raised = @ \cup {i}]

\* Handler i suspends in a call of convert(x), x being found at loc.
Calling(f, i, x, todo, acc, loc) ==
    /\ Len(stack) < MaxDepth
    /\ stack' = Append(SetTop([f EXCEPT !.wait = i, !.todo = todo, !.acc = acc]),
                       Enter(x, visited_refs', loc))

\* A handler that converts the sub-schemas Calls(os) one after the other and
\* then builds json_schema from the results.
CallsOf(i, os) ==
    CASE i = H_COMPOSITION -> CompositionCalls(os)
      [] i = H_OBJECT -> ObjectCalls(os)
      [] i = H_ARRAY -> ArrayCalls(os)

\* The place of the n-th schema of CallsOf, for the schema os found at loc.
CallLoc(i, os, loc, n) ==
    LET paths == CASE i = H_COMPOSITION -> CompositionPaths(os)
                   [] i = H_OBJECT -> ObjectPaths(os)
                   [] i = H_ARRAY -> ArrayPaths(os)
    IN  Loc(loc.root, loc.path \o paths[n])

BuildOf(i, os, js, rs) ==
    CASE i = H_COMPOSITION -> CompositionBuild(os, js, rs)
      [] i = H_OBJECT -> ObjectBuild(os, js, rs)
      [] i = H_ARRAY -> ArrayBuild(os, js, rs)

CallingHandler(i) ==
    /\ UNCHANGED <<full_spec, input_obj, visited_refs, calls, results, resolved>>
    /\ UNCHANGED mvars
    /\ \/ /\ Turn(i)
          /\ Top.wait = 0
          /\ ret' = NoRet
          /\ \E cs \in {CallsOf(i, Top.schema)} :
             IF cs = <<>>
             THEN \E js \in {BuildOf(i, Top.schema, Top.js, <<>>)} :
                      stack' = SetTop(Handled(Top, i, js))
             ELSE Calling(Top, i, Head(cs), Tail(cs), <<>>,
                          CallLoc(i, Top.schema, Top.loc, 1))
       \/ /\ stack # <<>>
          /\ Top.wait = i
          /\ ret # NoRet
          /\ ret' = NoRet
          /\ \E acc \in {Append(Top.acc, ret)} :
             IF Top.todo = <<>>
             THEN \E js \in {BuildOf(i, Top.schema, Top.js, acc)} :
                      stack' = SetTop(Handled(Top, i, js))
             ELSE Calling(Top, i, Head(Top.todo), Tail(Top.todo), acc,
                          CallLoc(i, Top.schema, Top.loc, Len(acc) + 1))

Composition == CallingHandler(H_COMPOSITION)
Object == CallingHandler(H_OBJECT)
Array == CallingHandler(H_ARRAY)

\* A handler that calls nothing.
HandleOf(i, os, js) ==
    CASE i = H_STRING -> StringHandle(os, js)
      [] i = H_NUMBER -> NumberHandle(os, js)

PureHandler(i) ==
    /\ Turn(i)
    /\ Top.wait = 0
    /\ \E js \in {HandleOf(i, Top.schema, Top.js)} :
           stack' = SetTop(Handled(Top, i, js))
    /\ UNCHANGED <<full_spec, input_obj, visited_refs, ret, calls, results, resolved>>
    /\ UNCHANGED mvars

String == PureHandler(H_STRING)
Number == PureHandler(H_NUMBER)

\* The list a reference stands for, as it is now.
Shared(a) == At(IF a.root = "spec" THEN full_spec ELSE input_obj, a.path)

\* CommonSchemaHandler.handle.  When json_schema["type"] is a list of the
\* source, json_schema["type"].append("null") changes the source in place.
Common ==
    /\ Turn(H_COMMON)
    /\ Top.wait = 0
    /\ \E j1 \in {_copy_common_keywords(Top.schema, Top.js)} :
       IF "type" \in DOMAIN j1 /\ j1["type"].k = "alias"
       THEN /\ stack' = SetTop(Handled(Top, H_COMMON, j1))
            /\ \E a \in {j1["type"]} :
               IF Truthy(Get(Top.schema, "nullable")) /\ NullNotIn(Shared(a).xs)
               THEN IF a.root = "spec"
                    THEN /\ full_spec' = AppendNull(full_spec, a.path)
                         /\ UNCHANGED input_obj
                    ELSE /\ input_obj' = AppendNull(input_obj, a.path)
                         /\ UNCHANGED full_spec
               ELSE UNCHANGED <<full_spec, input_obj>>
       ELSE /\ \E js \in {_handle_nullable(Top.schema, j1)} :
                   stack' = SetTop(Handled(Top, H_COMMON, js))
            /\ UNCHANGED <<full_spec, input_obj>>
    /\ UNCHANGED <<visited_refs, ret, calls, results, resolved>>
    /\ UNCHANGED mvars

-----------------------------------------------------------------------------
(* ReferenceHandler.handle *)

\* A handler that never finds a path in the set.
in_visited_refs_never(ref_path, visited) == FALSE

\* ref_path in self.visited_refs
in_visited_refs(ref_path, visited) == ref_path \in visited

PLACEHOLDERS == {UNRESOLVED, CYCLIC, NOT_OBJECT}

\* d.get("description", "").startswith(prefixes) raises for a description
\* that is not a str.
DescriptionRaises(d) == Has(d, "description") /\ ~isinstance_str(d.m["description"])
DescriptionStartsWith(d, prefixes) ==
    Has(d, "description") /\ startswith(d.m["description"].s, prefixes)

\* A placeholder that lacks the marker.
CyclicPlaceholderUnmarked(js, ref_path) ==
    Put(js, "description", CyclicDescription(ref_path))

\* json_schema after the update with the cyclic placeholder.
CyclicPlaceholder(js, ref_path) ==
    Put(Put(js, "description", CyclicDescription(ref_path)), MARKER, Bool(TRUE))

\* A handler that merges the target as it is, without converting it.
AfterResolve_skips_expansion(js, added, resolved_schema) ==
    IF resolved_schema = Failure \/ DescriptionRaises(resolved_schema)
    THEN [op |-> "raise", js |-> js, x |-> None, visited |-> added]
    ELSE [op |-> "done", js |-> Update(js, resolved_schema.m),
          x |-> None, visited |-> added]

\* handle from the placeholder test on resolved_schema to its call of
\* self.converter.convert; Failure: resolve_ref raised.
AfterResolve(js, added, resolved_schema) ==
    IF resolved_schema = Failure \/ DescriptionRaises(resolved_schema)
    THEN [op |-> "raise", js |-> js, x |-> None, visited |-> added]
    ELSE IF DescriptionStartsWith(resolved_schema, {UNRESOLVED, NOT_OBJECT})
    THEN [op |-> "done", js |-> Update(js, resolved_schema.m),
          x |-> None, visited |-> added]
    ELSE [op |-> "call", js |-> js, x |-> resolved_schema, visited |-> added]

\* A handler that adds the path only once the target is about to be
\* converted.
RefBegin_adds_after_resolving(spec, os, js, visited) ==
    LET ref_path == os.m["$ref"] IN
    IF isinstance_list(ref_path) \/ isinstance_dict(ref_path)
    THEN [op |-> "raise", js |-> js, x |-> None, visited |-> visited]
    ELSE IF in_visited_refs(ref_path, visited)
    THEN [op |-> "done", js |-> CyclicPlaceholder(js, ref_path),
          x |-> None, visited |-> visited]
    ELSE LET added == visited \cup {ref_path} IN
         CHOOSE b \in {IF a.op = "call" THEN a ELSE [a EXCEPT !.visited = visited] :
                           a \in {AfterResolve(js, added, resolve_ref(spec, ref_path))}} : TRUE

\* handle up to its call of self.converter.convert: op is "raise" (the
\* handler raised), "done" (it returned, json_schema = js) or "call" (it
\* goes on to convert x); visited is self.visited_refs afterwards.
RefBegin(spec, os, js, visited) ==
    LET ref_path == os.m["$ref"] IN
    IF isinstance_list(ref_path) \/ isinstance_dict(ref_path)
    THEN [op |-> "raise", js |-> js, x |-> None, visited |-> visited]
    ELSE IF in_visited_refs(ref_path, visited)
    THEN [op |-> "done", js |-> CyclicPlaceholder(js, ref_path),
          x |-> None, visited |-> visited]
    ELSE LET added == visited \cup {ref_path} IN
         CHOOSE b \in {AfterResolve(js, added, resolved_schema) :
                           resolved_schema \in {resolve_ref(spec, ref_path)}} : TRUE

\* A note that leaves the path out.
AnnotationWithoutPath(os, ref_path) == Str(<<"(from ref)">>)

\* The provenance note put on a merged result that has no description.
Annotation(os, ref_path) ==
    LET original_ref_desc == Get(os, "description") IN
    IF Truthy(original_ref_desc)
    THEN Str(Fmt(original_ref_desc) \o <<" ">> \o FromRef(ref_path))
    ELSE Str(FromRef(ref_path))

\* A merge that leaves the marker of the result out.
RefEndStripped(os, js, result) ==
    IF DescriptionRaises(result) THEN [op |-> "raise", js |-> js]
    ELSE LET is_recursive_error == DescriptionStartsWith(result, PLACEHOLDERS) IN
         LET j2 == Update(js, Pop(result.m, MARKER)) IN
         [op |-> "done",
          js |-> IF is_recursive_error \/ "description" \in DOMAIN j2 THEN j2
                 ELSE Put(j2, "description", Annotation(os, os.m["$ref"]))]

\* handle after convert returned result.
RefEnd(os, js, result) ==
    IF DescriptionRaises(result) THEN [op |-> "raise", js |-> js]
    ELSE LET is_recursive_error == DescriptionStartsWith(result, PLACEHOLDERS) IN
         LET j1 == IF Get(result, MARKER) = Bool(TRUE)
                   THEN Put(js, MARKER, Bool(TRUE)) ELSE js IN
         LET j2 == Update(j1, result.m) IN
         [op |-> "done",
          js |-> IF is_recursive_error \/ "description" \in DOMAIN j2 THEN j2
                 ELSE Put(j2, "description", Annotation(os, os.m["$ref"]))]

\* The place in the document of the schema resolve_ref(ref) returns.
RefLoc(ref) ==
    LET parts == Split(SubSeq(ref.s, 3, Len(ref.s))) IN
    Loc("spec", [i \in 1..Len(parts) |-> unquote(parts[i])])

Reference ==
    /\ UNCHANGED <<full_spec, input_obj, calls, results, resolved>>
    /\ UNCHANGED mvars
    /\ ret' = NoRet
    /\ \/ /\ Turn(H_REFERENCE)
          /\ Top.wait = 0
          /\ \E b \in {RefBegin(full_spec, Top.schema, Top.js, visited_refs)} :
             /\ visited_refs' = b.visited
             /\ CASE b.op = "raise" -> stack' = SetTop(Raised(Top, H_REFERENCE))
                  [] b.op = "done" -> stack' = SetTop(Handled(Top, H_REFERENCE, b.js))
                  [] b.op = "call" ->
                         Calling(Top, H_REFERENCE, b.x, <<>>, <<>>,
                                 RefLoc(Top.schema.m["$ref"]))
       \/ /\ stack # <<>>
          /\ Top.wait = H_REFERENCE
          /\ ret # NoRet
          /\ UNCHANGED visited_refs
          /\ \E e \in {RefEnd(Top.schema, Top.js, ret)} :
             stack' = SetTop(IF e.op = "raise" THEN Raised(Top, H_REFERENCE)
                             ELSE Handled(Top, H_REFERENCE, e.js))

-----------------------------------------------------------------------------
(* Entry and return of convert, and the calls made on the converter *)

\* A convert that answers None to an input that is no dict.
EmptySchemaNone == None

\* return {} for an input that is no dict
EmptySchema == O(<<>>)

\* The value convert returns from the frame f.
Returned(f) ==
    IF ~isinstance_dict(f.schema) THEN EmptySchema
    ELSE O(IF f.cyc THEN Put(f.js, MARKER, Bool(TRUE)) ELSE f.js)

\* The top frame has finished its loop: convert returns, to the handler
\* that called it or to the caller of the converter.
ConvertReturn ==
    /\ stack # <<>>
    /\ Top.wait = 0
    /\ ret = NoRet
    /\ LoopDone(Top)
    /\ stack' = SubSeq(stack, 1, Len(stack) - 1)
    /\ IF Len(stack) = 1 /\ mapper.pc = "idle"
       THEN /\ ret' = NoRet
            /\ results' = Append(results,
                   [input |-> Top.schema,
                    out |-> Snapshot(Returned(Top), full_spec, input_obj),
                    v0 |-> Top.v0, v1 |-> visited_refs,
                    ran |-> Top.ran, raised |-> Top.raised])
       ELSE /\ ret' = Returned(Top)
            /\ UNCHANGED results
    /\ UNCHANGED <<full_spec, input_obj, visited_refs, calls, resolved>>
    /\ UNCHANGED mvars

\* converter.convert(x), called from outside.
Convert(x) ==
    /\ stack = <<>>
    /\ calls < MaxCalls
    /\ calls' = calls + 1
    /\ input_obj' = x
    /\ stack' = <<Enter(x, visited_refs, Loc("input", <<>>))>>
    /\ resolved' = NoRet
    /\ UNCHANGED <<full_spec, visited_refs, ret, results>>
    /\ UNCHANGED mvars

\* SchemaConverter(full_spec): a new converter, whose ReferenceHandler
\* starts with an empty visited_refs.
NewConverter ==
    /\ stack = <<>>
    /\ calls < MaxCalls
    /\ visited_refs # {}
    /\ visited_refs' = {}
    /\ UNCHANGED <<full_spec, input_obj, stack, ret, calls, results, resolved>>
    /\ UNCHANGED mvars

\* handler.resolve_ref(ref), called directly.
ResolveRef(ref) ==
    /\ stack = <<>>
    /\ calls = 0
    /\ resolved' = [ref |-> ref, out |-> resolve_ref(full_spec, ref)]
    /\ UNCHANGED <<full_spec, input_obj, visited_refs, stack, ret, calls, results>>
    /\ UNCHANGED mvars

\* No call has been made on the converter or on its handlers.
ConverterInit ==
    /\ input_obj = None
    /\ visited_refs = {}
    /\ stack = <<>>
    /\ ret = NoRet
    /\ calls = 0
    /\ results = <<>>
    /\ resolved = NoRet

Init ==
    /\ full_spec \in Docs
    /\ input_obj = None
    /\ mapper = NoMapper
    /\ naming = NoRet
    /\ visited_refs = {}
    /\ stack = <<>>
    /\ ret = NoRet
    /\ calls = 0
    /\ results = <<>>
    /\ resolved = NoRet

Step ==
    \/ Reference
    \/ Composition
    \/ Object
    \/ Array
    \/ String
    \/ Number
    \/ Common
    \/ ConvertReturn

Next ==
    \/ Step
    \/ \E x \in Inputs(full_spec) : Convert(x)
    \/ NewConverter
    \/ \E ref \in RefStrings : ResolveRef(ref)

Spec == Init /\ [][Next]_vars

\* The calls of convert followed to their end: convert runs synchronously,
\* so a call that has started takes its steps until it returns.
LiveNext ==
    \/ Step
    \/ \E x \in Inputs(full_spec) : calls < MaxLiveCalls /\ Convert(x)
    \/ NewConverter

FairSpec == Init /\ [][LiveNext]_vars /\ WF_vars(Step)

-----------------------------------------------------------------------------
(* generate_tool_name: a str is the sequence of its characters *)

\* The characters of the model, in code point order.
Ascii ==
    <<"!", "#", "$", "-", ".", "/",
      "0", "1", "2", "3", "4", "5", "6", "7", "8", "9",
      "=", "?", "@",
      "A", "B", "C", "D", "E", "F", "G", "H", "I", "J", "K", "L", "M",
      "N", "O", "P", "Q", "R", "S", "T", "U", "V", "W", "X", "Y", "Z",
      "_",
      "a", "b", "c", "d", "e", "f", "g", "h", "i", "j", "k", "l", "m",
      "n", "o", "p", "q", "r", "s", "t", "u", "v", "w", "x", "y", "z",
      "{", "}">>

\* The rank of the character c among the characters of the model.
Ord(c) == CHOOSE i \in 1..Len(Ascii) : Ascii[i] = c

Between(c, lo, hi) == Ord(lo) <= Ord(c) /\ Ord(c) <= Ord(hi)

\* A lower that leaves every character as it is.
lower_char_identity(c) == c

\* str.lower on one character
lower_char(c) ==
    IF Between(c, "A", "Z") THEN Ascii[Ord(c) - Ord("A") + Ord("a")] ELSE c

\* str.upper on one character
upper_char(c) ==
    IF Between(c, "a", "z") THEN Ascii[Ord(c) - Ord("a") + Ord("A")] ELSE c

lower(s) == [i \in 1..Len(s) |-> lower_char(s[i])]
upper(s) == [i \in 1..Len(s) |-> upper_char(s[i])]

\* c in s
Contains(s, c) == \E i \in 1..Len(s) : s[i] = c

\* s.split(sep) for a separator of one character
SplitOn(s, sep) ==
    LET seps == {i \in 1..Len(s) : s[i] = sep}
        n == Cardinality(seps)
        cut(k) == IF k = 0 THEN 0
                  ELSE IF k = n + 1 THEN Len(s) + 1
                  ELSE CHOOSE i \in seps : Cardinality({j \in seps : j <= i}) = k
    IN  [k \in 1..(n + 1) |-> SubSeq(s, cut(k - 1) + 1, cut(k) - 1)]

\* s.lstrip(c)
lstrip(s, c) ==
    LET keep == {i \in 1..Len(s) : s[i] # c} IN
    IF keep = {} THEN <<>>
    ELSE SubSeq(s, CHOOSE i \in keep : \A j \in keep : i <= j, Len(s))

\* s.strip(c)
strip(s, c) ==
    LET keep == {i \in 1..Len(s) : s[i] # c} IN
    IF keep = {} THEN <<>>
    ELSE SubSeq(s, CHOOSE i \in keep : \A j \in keep : i <= j,
                   CHOOSE i \in keep : \A j \in keep : j <= i)

\* The part of the path the name is built from: the path without its
\* slashes at both ends, with the query of a path that holds a "?".
path_segment(path) ==
    IF Contains(path, "?")
    THEN LET path_parts == SplitOn(path, "?") IN
         LET query_part == path_parts[2] IN
         strip(path_parts[1], "/") \o <<"_", "q", "u", "e", "r", "y", "_">>
             \o (IF Contains(query_part, "=") THEN SplitOn(query_part, "=")[2]
                 ELSE query_part)
    ELSE strip(path, "/")

\* param_replacer: "_by_" and the parameter name with "." and "-" as "_"
param_replacer(param_name) ==
    <<"_", "b", "y", "_">>
        \o [i \in 1..Len(param_name) |->
               IF param_name[i] \in {".", "-"} THEN "_" ELSE param_name[i]]

\* re.sub(r"\{([^}]+)\}", param_replacer, s): a match starts at a "{" that
\* is followed by at least one character other than "}" and then a "}".
RECURSIVE replace_params(_)
replace_params(s) ==
    IF s = <<>> THEN <<>>
    ELSE IF s[1] = "{" /\ \E j \in 3..Len(s) :
                              s[j] = "}" /\ \A l \in 2..(j - 1) : s[l] # "}"
         THEN LET j == CHOOSE j \in 3..Len(s) :
                           s[j] = "}" /\ \A l \in 2..(j - 1) : s[l] # "}" IN
              param_replacer(SubSeq(s, 2, j - 1))
                  \o replace_params(SubSeq(s, j + 1, Len(s)))
    ELSE <<s[1]>> \o replace_params(Tail(s))

\* [a-zA-Z0-9_]
IsWordChar(c) ==
    Between(c, "a", "z") \/ Between(c, "A", "Z") \/ Between(c, "0", "9") \/ c = "_"

\* A replacement of the separators "/", "." and "-" only.
sanitize_separators(s) ==
    [i \in 1..Len(s) |-> IF s[i] \in {"/", ".", "-"} THEN "_" ELSE s[i]]

\* re.sub(r"[^a-zA-Z0-9_]", "_", s)
sanitize(s) == [i \in 1..Len(s) |-> IF IsWordChar(s[i]) THEN s[i] ELSE "_"]

\* re.sub(r"_+", "_", s)
RECURSIVE collapse(_)
collapse(s) ==
    IF Len(s) < 2 THEN s
    ELSE IF s[1] = "_" /\ s[2] = "_" THEN collapse(Tail(s))
    ELSE <<s[1]>> \o collapse(Tail(s))

\* The path part of the name of a path whose segment is not empty.
processed_path(path_part) ==
    lstrip(collapse(sanitize(replace_params(path_part))), "_")

generate_tool_name(method, path) ==
    LET method_part == lower(method) IN
    LET path_part == path_segment(path) IN
    IF path_part = <<>> THEN method_part \o <<"_", "r", "o", "o", "t">>
    ELSE method_part \o <<"_">> \o processed_path(path_part)

\* The paths and methods generate_tool_name is called with directly.
MaxPathLen == 3

PathAlphabet == {"/", "a", "B", "-", ".", "{", "}", "?", "=", "_", "@"}

ShortPaths == UNION {[1..n -> PathAlphabet] : n \in 0..MaxPathLen}

ExamplePaths ==
    { <<"/", "u", "s", "e", "r", "s">>,
      <<"/", "u", "s", "e", "r", "s", "/", "{", "u", "s", "e", "r", "I", "d", "}">>,
      <<"/", "c", "o", "m", "p", "l", "e", "x", "/", "p", "a", "t", "h">>,
      <<"/", "a", "-", "@", "!", "#", "$", "-", "b">>,
      <<"/", "s", "?", "q", "=", "t">>,
      <<"/", "x", "/", "{", "a", ".", "b", "-", "c", "}">>,
      <<"/", "x", "/", "{", "a", "-", "-", "b", "}", "/", "{", "x", "{", "a", "}">> }

NamingInputs ==
    ({<<"G", "E", "T">>} \X (ShortPaths \cup ExamplePaths))
        \cup ({<<"P", "o", "S", "t">>, <<"P", "O", "S", "T">>} \X ExamplePaths)

\* generate_tool_name(method, path), called directly.
GenerateToolName ==
    /\ naming.name = None
    /\ naming' = [naming EXCEPT
                     !.name = Str(generate_tool_name(naming.method, naming.path))]
    /\ UNCHANGED <<full_spec, input_obj, visited_refs, stack, ret, calls, results,
                   resolved, mapper>>

NamingInit ==
    /\ full_spec = Doc0
    /\ ConverterInit
    /\ mapper = NoMapper
    /\ \E mp \in NamingInputs :
           naming = [method |-> mp[1], path |-> mp[2], name |-> None]

NamingNext == GenerateToolName

NamingSpec == NamingInit /\ [][NamingNext]_vars

-----------------------------------------------------------------------------
(* Mapper: map_tools and the operations it maps *)

MaxMapCalls == 2
MaxParams == 2

\* The lower-cased method keys map_tools accepts.
HTTP_METHODS ==
    { <<"g", "e", "t">>, <<"p", "o", "s", "t">>, <<"p", "u", "t">>,
      <<"d", "e", "l", "e", "t", "e">>, <<"p", "a", "t", "c", "h">>,
      <<"o", "p", "t", "i", "o", "n", "s">>, <<"h", "e", "a", "d">>,
      <<"t", "r", "a", "c", "e">> }

\* The keys of the path tables of the model, as their characters.
KeyStrings ==
    HTTP_METHODS \cup
    { <<"G", "E", "T">>, <<"P", "o", "s", "t">>, <<"f", "e", "t", "c", "h">>,
      <<"p", "a", "r", "a", "m", "e", "t", "e", "r", "s">>,
      <<"/">>, <<"/", "a">>, <<"/", "b">>, <<"/", "a", "/", "{", "i", "d", "}">> }

RECURSIVE Join(_)
Join(cs) == IF cs = <<>> THEN "" ELSE cs[1] \o Join(Tail(cs))

\* The characters of a key of a path table.
CharsOfKey == [key \in {Join(cs) : cs \in KeyStrings} |->
                  CHOOSE cs \in KeyStrings : Join(cs) = key]
Chars(key) == CharsOfKey[key]

\* "requestBody"
REQUEST_BODY == Str(<<"r", "e", "q", "u", "e", "s", "t", "B", "o", "d", "y">>)

\* self.spec.get("paths", {})
PathsOf(spec) == IF Has(spec, "paths") THEN spec.m["paths"] ELSE O(<<>>)

\* operation.get("parameters", []), a value that is no list replaced by []
ParametersOf(operation) ==
    IF isinstance_list(Get(operation, "parameters"))
    THEN operation.m["parameters"].xs ELSE <<>>

\* d.get(key, False)
GetOrFalse(d, key) == IF Has(d, key) THEN d.m[key] ELSE Bool(FALSE)

\* A value that can be a dict key or a set member.
Hashable(v) == ~isinstance_list(v) /\ ~isinstance_dict(v)

\* s < t for two str, by code points.
RECURSIVE StrLess(_, _)
StrLess(s, t) ==
    IF t = <<>> THEN FALSE
    ELSE IF s = <<>> THEN TRUE
    ELSE IF s[1] = t[1] THEN StrLess(Tail(s), Tail(t))
    ELSE Ord(s[1]) < Ord(t[1])

\* a < b for two values of the same type.
Less(a, b) == IF isinstance_str(a) THEN StrLess(a.s, b.s) ELSE a.n < b.n

\* The members of vs can be ordered: all str or all numbers.
Orderable(vs) ==
    \/ \A v \in vs : isinstance_str(v)
    \/ \A v \in vs : isinstance_num(v)

RECURSIVE Ascending(_)
Ascending(vs) ==
    IF vs = {} THEN <<>>
    ELSE LET least == CHOOSE x \in vs : \A y \in vs \ {x} : Less(x, y) IN
         <<least>> \o Ascending(vs \ {least})

\* A required list that is left as the parameters and the body built it.
sorted_set_unsorted(required) == List(required)

\* sorted(set(input_schema["required"])); Failure: the TypeError of "<"
\* between a str and a number.
sorted_set(required) ==
    LET vs == {required[i] : i \in 1..Len(required)} IN
    IF Orderable(vs) THEN List(Ascending(vs)) ELSE Failure

\* A loop that lets a resolved parameter without a usable name or "in"
\* end the operation.
ParameterPlan_strict(spec, param_maybe_ref, here) ==
    IF ~isinstance_dict(param_maybe_ref) THEN [op |-> "skip"]
    ELSE LET is_ref == Has(param_maybe_ref, "$ref") IN
         LET param == IF is_ref THEN resolve_ref(spec, param_maybe_ref.m["$ref"])
                      ELSE param_maybe_ref IN
         IF param = Failure THEN [op |-> "raise"]
         ELSE IF ~isinstance_dict(param) THEN [op |-> "skip"]
         ELSE LET param_name == Get(param, "name") IN
              LET param_in == Get(param, "in") IN
              IF ~Truthy(param_name)
                 \/ param_in \notin {S("path"), S("query"), S("header")}
              THEN [op |-> IF is_ref THEN "raise" ELSE "skip"]
              ELSE [op |-> "call", param |-> param,
                    x |-> IF Has(param, "schema") THEN param.m["schema"] ELSE O(<<>>),
                    loc |-> Loc("spec",
                                Append(IF is_ref THEN RefLoc(param_maybe_ref.m["$ref"]).path
                                       ELSE here, "schema"))]

\* _process_parameters for one element of parameters found at here, up to
\* its call of openapi_schema_to_json_schema: op is "skip" (continue),
\* "raise" (_resolve_ref raised) or "call" (the schema x of param is
\* converted next).
ParameterPlan(spec, param_maybe_ref, here) ==
    IF ~isinstance_dict(param_maybe_ref) THEN [op |-> "skip"]
    ELSE LET is_ref == Has(param_maybe_ref, "$ref") IN
         LET param == IF is_ref THEN resolve_ref(spec, param_maybe_ref.m["$ref"])
                      ELSE param_maybe_ref IN
         IF param = Failure THEN [op |-> "raise"]
         ELSE IF ~isinstance_dict(param) THEN [op |-> "skip"]
         ELSE LET param_name == Get(param, "name") IN
              LET param_in == Get(param, "in") IN
              IF ~Truthy(param_name)
                 \/ param_in \notin {S("path"), S("query"), S("header")}
              THEN [op |-> "skip"]
              ELSE [op |-> "call", param |-> param,
                    x |-> IF Has(param, "schema") THEN param.m["schema"] ELSE O(<<>>),
                    loc |-> Loc("spec",
                                Append(IF is_ref THEN RefLoc(param_maybe_ref.m["$ref"]).path
                                       ELSE here, "schema"))]

\* A choice of the first declared content type, whatever else is declared.
primary_content_type_first(content) ==
    IF Truthy(content) /\ isinstance_dict(content.m[content.ord[1]])
    THEN content.ord[1]
    ELSE ""

\* The primary_content_type _process_request_body chooses in content: the
\* key "application/json" if its value is a dict, else the first key if its
\* value is a dict; "" stands for None.
primary_content_type(content) ==
    IF Has(content, "application/json")
       /\ isinstance_dict(content.m["application/json"])
    THEN "application/json"
    ELSE IF Truthy(content) /\ isinstance_dict(content.m[content.ord[1]])
    THEN content.ord[1]
    ELSE ""

\* A branch that also appends "requestBody" to input_schema["required"].
without_schema_requiring(request_body) ==
    [op |-> "done",
     processed |-> IF Truthy(GetOrFalse(request_body, "required"))
                   THEN [required |-> Bool(TRUE), content_type |-> None]
                   ELSE None,
     requires |-> Truthy(GetOrFalse(request_body, "required"))]

\* The end of _process_request_body when no schema is converted: the
\* provenance of a required body, and nothing is appended to
\* input_schema["required"].
without_schema(request_body) ==
    [op |-> "done",
     processed |-> IF Truthy(GetOrFalse(request_body, "required"))
                   THEN [required |-> Bool(TRUE), content_type |-> None]
                   ELSE None,
     requires |-> FALSE]

\* return None, before content is looked at.
ReturnNone == [op |-> "done", processed |-> None, requires |-> FALSE]

\* _process_request_body for the requestBody found at here, up to its call
\* of openapi_schema_to_json_schema: op is "done" (it returned processed),
\* "raise" (_resolve_ref raised) or "call" (body_schema_openapi = x is
\* converted next).
RequestBodyPlan(spec, request_body_maybe_ref, here) ==
    IF ~isinstance_dict(request_body_maybe_ref)
    THEN ReturnNone
    ELSE
    LET is_ref == Has(request_body_maybe_ref, "$ref") IN
    LET request_body == IF is_ref
                        THEN resolve_ref(spec, request_body_maybe_ref.m["$ref"])
                        ELSE request_body_maybe_ref IN
    IF request_body = Failure THEN [op |-> "raise"]
    ELSE IF ~isinstance_dict(request_body) THEN ReturnNone
    ELSE
    LET content == IF Has(request_body, "content") THEN request_body.m["content"]
                   ELSE O(<<>>) IN
    IF ~isinstance_dict(content) THEN ReturnNone
    ELSE
    LET chosen == primary_content_type(content) IN
    LET body_schema_openapi ==
            IF chosen = "" THEN None ELSE Get(content.m[chosen], "schema") IN
    IF chosen # "" /\ isinstance_dict(body_schema_openapi)
    THEN [op |-> "call", request_body |-> request_body,
          primary_content_type |-> chosen,
          x |-> body_schema_openapi,
          loc |-> Loc("spec",
                      (IF is_ref THEN RefLoc(request_body_maybe_ref.m["$ref"]).path
                       ELSE here)
                          \o <<"content", chosen, "schema">>)]
    ELSE without_schema(request_body)

\* The operation map_tools is mapping.
CurrentOperation == full_spec.m["paths"].m[mapper.op.path].m[mapper.op.method]
CurrentLoc == <<"paths", mapper.op.path, mapper.op.method>>

\* The entry the loops of map_tools have reached.
AtPath == mapper.pi <= Len(PathsOf(full_spec).ord)
PathKey == PathsOf(full_spec).ord[mapper.pi]
PathItem == PathsOf(full_spec).m[PathKey]
AtMethod == isinstance_dict(PathItem) /\ mapper.mi <= Len(PathItem.ord)
MethodKey == PathItem.ord[mapper.mi]
Operation == PathItem.m[MethodKey]

\* A test that compares the method key as it is written.
IsOperation_exact(method, operation) ==
    Chars(method) \in HTTP_METHODS /\ isinstance_dict(operation)

\* The test of map_tools on one entry of a path item.
IsOperation(method, operation) ==
    lower(Chars(method)) \in HTTP_METHODS /\ isinstance_dict(operation)

\* A name that is derived from the method and the path whatever the
\* operation holds.
tool_name_derived(method, path, operation) ==
    Str(generate_tool_name(Chars(method), Chars(path)))

\* tool_name = operation.get("operationId") or generate_tool_name(method, path)
tool_name(method, path, operation) ==
    IF Truthy(Get(operation, "operationId")) THEN operation.m["operationId"]
    ELSE Str(generate_tool_name(Chars(method), Chars(path)))

\* The tool _map_operation_to_tool returns.
Tool(method, path, operation, properties, required, processed_params, processed_request_body) ==
    [name |-> tool_name(method, path, operation),
     description |->
         IF Truthy(Get(operation, "summary")) THEN operation.m["summary"]
         ELSE IF Has(operation, "description") THEN operation.m["description"]
         ELSE Str(upper(Chars(method)) \o <<" operation for ">> \o Chars(path)),
     inputSchema |-> [type |-> S("object"), properties |-> properties,
                      required |-> required],
     _original_method |-> Str(upper(Chars(method))),
     _original_path |-> Str(Chars(path)),
     _original_parameters |-> processed_params,
     _original_request_body |-> processed_request_body]

\* The tool as map_tools' caller sees it.
SnapshotTool(t, spec, input) ==
    [t EXCEPT !.inputSchema.properties =
                  [x \in DOMAIN @ |-> Snapshot(@[x], spec, input)]]

\* A mapper that lets the exception of an operation escape map_tools.
OperationFailedUncaught(m) ==
    [m EXCEPT !.pc = "idle", !.op = NoOp,
              !.outs = Append(@, [k |-> "raise", error |-> "Exception"])]

\* except Exception: the failure is logged and the loop goes on with the
\* next entry of the path item.
OperationFailed(m) ==
    [m EXCEPT !.pc = "loop", !.mi = @ + 1, !.op = NoOp,
              !.failed = Append(@, <<m.op.path, m.op.method>>)]

\* An end that leaves the schema of the request body out of the properties.
Finished_without_body_schema(m, spec, properties, required, processed_request_body) ==
    LET sorted == sorted_set(required) IN
    IF sorted.k = "raise" THEN OperationFailed(m)
    ELSE [m EXCEPT !.pc = "loop", !.mi = @ + 1, !.op = NoOp,
                   !.mapped = Append(@, <<m.op.path, m.op.method>>),
                   !.schemas = Append(@, m.op.schemas),
                   !.mcp_tools =
                       Append(@, Tool(m.op.method, m.op.path,
                                      spec.m["paths"].m[m.op.path].m[m.op.method],
                                      m.op.properties, sorted.xs, m.op.processed_params,
                                      processed_request_body))]

\* The end of _map_operation_to_tool, once the request body is processed:
\* the required list is sorted and the tool is appended to self.mcp_tools.
Finished(m, spec, properties, required, processed_request_body) ==
    LET sorted == sorted_set(required) IN
    IF sorted.k = "raise" THEN OperationFailed(m)
    ELSE [m EXCEPT !.pc = "loop", !.mi = @ + 1, !.op = NoOp,
                   !.mapped = Append(@, <<m.op.path, m.op.method>>),
                   !.schemas = Append(@, m.op.schemas),
                   !.mcp_tools =
                       Append(@, Tool(m.op.method, m.op.path,
                                      spec.m["paths"].m[m.op.path].m[m.op.method],
                                      properties, sorted.xs, m.op.processed_params,
                                      processed_request_body))]

\* mapper.map_tools(), up to the loop over the paths.
MapTools ==
    /\ mapper.pc = "idle"
    /\ mapper.calls < MaxMapCalls
    /\ stack = <<>>
    /\ IF isinstance_dict(PathsOf(full_spec))
       THEN mapper' = [mapper EXCEPT !.pc = "loop", !.calls = @ + 1,
                                     !.mcp_tools = <<>>, !.mapped = <<>>,
                                     !.failed = <<>>, !.schemas = <<>>,
                                     !.pi = 1, !.mi = 1]
       ELSE mapper' = [mapper EXCEPT !.calls = @ + 1, !.mcp_tools = <<>>,
                                     !.mapped = <<>>, !.failed = <<>>,
                                     !.schemas = <<>>,
                                     !.outs = Append(@, [k |-> "raise",
                                                         error |-> "MappingError"])]
    /\ UNCHANGED <<full_spec, input_obj, visited_refs, stack, ret, calls, results,
                   resolved, naming>>

\* return self.mcp_tools, after the last path.
MapToolsReturn ==
    /\ mapper.pc = "loop"
    /\ ~AtPath
    /\ mapper' = [mapper EXCEPT
                     !.pc = "idle",
                     !.outs = Append(@,
                         [k |-> "tools",
                          tools |-> [i \in 1..Len(mapper.mcp_tools) |->
                                        SnapshotTool(mapper.mcp_tools[i],
                                                     full_spec, input_obj)],
                          mapped |-> mapper.mapped,
                          schemas |-> [i \in 1..Len(mapper.schemas) |->
                                          [j \in 1..Len(mapper.schemas[i]) |->
                                              Snapshot(mapper.schemas[i][j],
                                                       full_spec, input_obj)]],
                          failed |-> mapper.failed])]
    /\ UNCHANGED <<full_spec, input_obj, visited_refs, stack, ret, calls, results,
                   resolved, naming>>

\* The loop over the paths goes on to the next path: the path item is no
\* dict, or all its entries have been seen.
NextPath ==
    /\ mapper.pc = "loop"
    /\ AtPath
    /\ ~AtMethod
    /\ mapper' = [mapper EXCEPT !.pi = @ + 1, !.mi = 1]
    /\ UNCHANGED <<full_spec, input_obj, visited_refs, stack, ret, calls, results,
                   resolved, naming>>

\* The entry is no operation: continue.
SkipEntry ==
    /\ mapper.pc = "loop"
    /\ AtPath
    /\ AtMethod
    /\ ~IsOperation(MethodKey, Operation)
    /\ mapper' = [mapper EXCEPT !.mi = @ + 1]
    /\ UNCHANGED <<full_spec, input_obj, visited_refs, stack, ret, calls, results,
                   resolved, naming>>

\* _map_operation_to_tool(method, path, operation), up to the loop of
\* _process_parameters.
MapOperation ==
    /\ mapper.pc = "loop"
    /\ AtPath
    /\ AtMethod
    /\ IsOperation(MethodKey, Operation)
    /\ mapper' = [mapper EXCEPT
                     !.pc = "params",
                     !.op = [path |-> PathKey, method |-> MethodKey, index |-> 1,
                             properties |-> <<>>, required |-> <<>>,
                             schemas |-> <<>>,
                             processed_params |-> <<>>, pending |-> NoOp]]
    /\ UNCHANGED <<full_spec, input_obj, visited_refs, stack, ret, calls, results,
                   resolved, naming>>

\* A mapper that converts every schema with one converter.
ConvertWithSameConverter(x, loc) ==
    /\ visited_refs' = visited_refs
    /\ stack' = <<Enter(x, visited_refs, loc)>>

\* openapi_schema_to_json_schema(x, self.spec): a new converter converts x.
ConvertWithNewConverter(x, loc) ==
    /\ visited_refs' = {}
    /\ stack' = <<Enter(x, {}, loc)>>

\* One iteration of the loop of _process_parameters, up to the conversion
\* of the parameter's schema; after the last parameter the request body
\* is next.
Parameter ==
    /\ mapper.pc = "params"
    /\ UNCHANGED <<full_spec, input_obj, ret, calls, results, resolved, naming>>
    /\ IF mapper.op.index > Len(ParametersOf(CurrentOperation))
       THEN /\ mapper' = [mapper EXCEPT !.pc = "body"]
            /\ UNCHANGED <<visited_refs, stack>>
       ELSE \E plan \in {ParameterPlan(full_spec,
                                       ParametersOf(CurrentOperation)[mapper.op.index],
                                       CurrentLoc \o <<"parameters",
                                                       IndexKey(mapper.op.index)>>)} :
                CASE plan.op = "skip" ->
                         /\ mapper' = [mapper EXCEPT !.op.index = @ + 1]
                         /\ UNCHANGED <<visited_refs, stack>>
                  [] plan.op = "raise" ->
                         /\ mapper' = OperationFailed(mapper)
                         /\ UNCHANGED <<visited_refs, stack>>
                  [] plan.op = "call" ->
                         /\ mapper' = [mapper EXCEPT !.pc = "param_call",
                                                     !.op.pending = plan]
                         /\ ConvertWithNewConverter(plan.x, plan.loc)

\* The rest of the iteration, once the schema is converted.
ParameterConverted ==
    /\ mapper.pc = "param_call"
    /\ stack = <<>>
    /\ ret # NoRet
    /\ ret' = NoRet
    /\ LET param == mapper.op.pending.param IN
       LET param_name == param.m["name"] IN
       LET param_schema_json ==
               IF Has(param, "description")
               THEN O(Put(ret.m, "description", param.m["description"]))
               ELSE ret IN
       IF ~Hashable(param_name) THEN mapper' = OperationFailed(mapper)
       ELSE mapper' =
                [mapper EXCEPT
                    !.pc = "params",
                    !.op.index = @ + 1,
                    !.op.pending = NoOp,
                    !.op.properties = (param_name :> param_schema_json) @@ @,
                    !.op.schemas = Append(@, param_schema_json),
                    !.op.required = IF Truthy(GetOrFalse(param, "required"))
                                    THEN Append(@, param_name) ELSE @,
                    !.op.processed_params =
                        Append(@, [name |-> param_name, in |-> param.m["in"],
                                   required |-> GetOrFalse(param, "required")])]
    /\ UNCHANGED <<full_spec, input_obj, visited_refs, stack, calls, results,
                   resolved, naming>>

\* _process_request_body, up to the conversion of the body's schema, and
\* the end of _map_operation_to_tool when there is nothing to convert.
RequestBody ==
    /\ mapper.pc = "body"
    /\ UNCHANGED <<full_spec, input_obj, ret, calls, results, resolved, naming>>
    /\ \E plan \in {RequestBodyPlan(full_spec, Get(CurrentOperation, "requestBody"),
                                    Append(CurrentLoc, "requestBody"))} :
           CASE plan.op = "done" ->
                    /\ mapper' = Finished(mapper, full_spec, mapper.op.properties,
                                          IF plan.requires
                                          THEN Append(mapper.op.required, REQUEST_BODY)
                                          ELSE mapper.op.required,
                                          plan.processed)
                    /\ UNCHANGED <<visited_refs, stack>>
             [] plan.op = "raise" ->
                    /\ mapper' = OperationFailed(mapper)
                    /\ UNCHANGED <<visited_refs, stack>>
             [] plan.op = "call" ->
                    /\ mapper' = [mapper EXCEPT !.pc = "body_call",
                                                !.op.pending = plan]
                    /\ ConvertWithNewConverter(plan.x, plan.loc)

\* The rest of _process_request_body, once the schema is converted, and
\* the end of _map_operation_to_tool.
RequestBodyConverted ==
    /\ mapper.pc = "body_call"
    /\ stack = <<>>
    /\ ret # NoRet
    /\ ret' = NoRet
    /\ LET request_body == mapper.op.pending.request_body IN
       LET required == GetOrFalse(request_body, "required") IN
       mapper' = Finished(mapper, full_spec,
                          (REQUEST_BODY :> ret) @@ mapper.op.properties,
                          IF Truthy(required)
                          THEN Append(mapper.op.required, REQUEST_BODY)
                          ELSE mapper.op.required,
                          [required |-> required,
                           content_type |->
                               S(mapper.op.pending.primary_content_type)])
    /\ UNCHANGED <<full_spec, input_obj, visited_refs, stack, calls, results,
                   resolved, naming>>

-----------------------------------------------------------------------------
(* The documents the model maps *)

MapSchemaA ==
    D(<< <<"type", S("object")>>,
         <<"properties", D(<< <<"s", TString>>, <<"n", TInteger>>,
                              <<"l", D(<< <<"type", S("array")>>,
                                          <<"items", TString>> >>)>> >>)>>,
         <<"allOf", List(<<Described(S("D"))>>)>> >>)

JsonOf(schema) == D(<< <<"schema", schema>> >>)

MapDefs ==
    D(<< <<"A", MapSchemaA>>,
         <<"P", D(<< <<"name", S("Z")>>, <<"in", S("header")>>,
                     <<"required", Bool(TRUE)>>, <<"schema", Ref(RefA)>> >>)>>,
         <<"RB", D(<< <<"required", Bool(TRUE)>>,
                      <<"content", D(<< <<"application/json",
                                          JsonOf(Ref(RefA))>> >>)>> >>)>>,
         <<"S", D(<< <<"type", List(<<S("string")>>)>> >>)>>,
         <<"PC", D(<< <<"name", S("c")>>, <<"in", S("cookie")>>,
                      <<"required", Bool(TRUE)>>, <<"schema", TString>> >>)>>,
         <<"PP", Ref(Str(<<"#", "/", "defs", "/", "P">>))>>,
         <<"RN", D(<< <<"required", Bool(TRUE)>> >>)>>,
         <<"RR", Ref(Str(<<"#", "/", "defs", "/", "RB">>))>>,
         <<"n", Num(5)>> >>)

RefS == Str(<<"#", "/", "defs", "/", "S">>)
RefP == Str(<<"#", "/", "defs", "/", "P">>)
RefRB == Str(<<"#", "/", "defs", "/", "RB">>)

\* A document with the path table paths.
MapDoc(paths) == D(<< <<"paths", paths>>, <<"defs", MapDefs>> >>)

\* The elements of the parameters lists of the model.
ParamChoices ==
    { D(<< <<"name", S("b")>>, <<"in", S("query")>>, <<"required", Bool(TRUE)>>,
           <<"description", S("d")>>, <<"schema", Described(S("s"))>> >>),
      D(<< <<"name", S("a")>>, <<"in", S("path")>>, <<"required", Bool(TRUE)>>,
           <<"schema", TInteger>> >>),
      D(<< <<"name", S("a")>>, <<"in", S("header")>> >>),
      D(<< <<"name", REQUEST_BODY>>, <<"in", S("query")>>, <<"required", S("yes")>> >>),
      D(<< <<"name", S("c")>>, <<"in", S("cookie")>>, <<"required", Bool(TRUE)>> >>),
      D(<< <<"name", Str(<<>>)>>, <<"in", S("query")>> >>),
      S("junk"),
      Ref(Str(<<"#", "/", "defs", "/", "P">>)),
      Ref(RefMissing),
      Ref(Num(5)),
      D(<< <<"name", List(<<S("x")>>)>>, <<"in", S("query")>> >>),
      D(<< <<"name", Num(1)>>, <<"in", S("query")>>, <<"required", Bool(TRUE)>>,
           <<"schema", S("junk")>> >>),
      D(<< <<"name", S("B")>>, <<"in", S("query")>>, <<"required", Bool(FALSE)>>,
           <<"schema", D(<< <<"type", List(<<S("string")>>)>>,
                            <<"nullable", Bool(TRUE)>> >>)>> >>) }

ParamLists == UNION {[1..n -> ParamChoices] : n \in 0..MaxParams}

\* The content values of the request bodies of the model.
ContentChoices ==
    { D(<< <<"application/json", JsonOf(TString)>>, <<"text/plain", JsonOf(TInteger)>> >>),
      D(<< <<"text/plain", JsonOf(TInteger)>>, <<"application/json", JsonOf(TString)>> >>),
      D(<< <<"text/plain", JsonOf(TInteger)>>, <<"application/json", S("junk")>> >>),
      D(<< <<"application/json", S("junk")>>, <<"text/plain", JsonOf(TInteger)>> >>),
      D(<< <<"text/plain", JsonOf(TInteger)>>, <<"application/json", D(<<>>)>> >>),
      D(<< <<"text/plain", JsonOf(TInteger)>> >>),
      D(<< <<"text/plain", JsonOf(S("junk"))>> >>),
      D(<< <<"text/plain", S("junk")>> >>),
      D(<< <<"application/json", JsonOf(Ref(RefA))>> >>),
      D(<<>>),
      S("junk") }

RequestBodies ==
    { D(<< <<"required", r>>, <<"content", c>> >>) :
          r \in {Bool(TRUE), Bool(FALSE)}, c \in ContentChoices }
    \cup { D(<< <<"content", c>> >>) : c \in ContentChoices }
    \cup { D(<< <<"required", Bool(TRUE)>> >>),
           S("junk"),
           Ref(Str(<<"#", "/", "defs", "/", "RB">>)),
           Ref(RefMissing),
           Ref(Num(5)) }

\* The parameters lists the request bodies are combined with.
BodyParamLists ==
    { <<>>,
      << D(<< <<"name", REQUEST_BODY>>, <<"in", S("query")>>,
              <<"required", Bool(TRUE)>> >>) >>,
      << D(<< <<"name", S("z")>>, <<"in", S("path")>>, <<"required", Bool(TRUE)>> >>),
         D(<< <<"name", REQUEST_BODY>>, <<"in", S("header")>>,
              <<"required", Bool(TRUE)>> >>) >> }

OperationOf(parameters, request_body) ==
    D(<< <<"parameters", List(parameters)>>, <<"requestBody", request_body>> >>)

OneOperation(operation) == MapDoc(D(<< <<"/a", D(<< <<"get", operation>> >>)>> >>))

SimpleOperation ==
    D(<< <<"summary", S("s")>>,
         <<"parameters", List(<< D(<< <<"name", S("a")>>, <<"in", S("path")>>,
                                      <<"required", Bool(TRUE)>> >>) >>)>> >>)

\* A query parameter q with the given schema.
QueryOf(schema) ==
    D(<< <<"name", S("q")>>, <<"in", S("query")>>, <<"schema", schema>> >>)

\* One operation whose parameter refers to the schema S.
SharedAlone ==
    D(<< <<"/a", D(<< <<"get", OperationOf(<<QueryOf(Ref(RefS))>>, None)>> >>)>> >>)

\* The same operation, and a second one that refers to S as nullable.
SharedBoth ==
    D(<< <<"/a", D(<< <<"get", OperationOf(<<QueryOf(Ref(RefS))>>, None)>> >>)>>,
         <<"/b", D(<< <<"get", OperationOf(
                          <<QueryOf(D(<< <<"$ref", RefS>>,
                                         <<"nullable", Bool(TRUE)>> >>))>>, None)>> >>)>> >>)

\* Two operations whose parameters and request bodies refer to the schema A.
SharedSchema ==
    D(<< <<"/a", D(<< <<"get", OperationOf(<<QueryOf(Ref(RefA)), Ref(RefP)>>,
                                           Ref(RefRB))>>,
                      <<"put", OperationOf(<<QueryOf(Ref(RefA))>>, None)>> >>)>>,
         <<"/b", D(<< <<"post", OperationOf(<<Ref(RefP)>>, Ref(RefRB))>> >>)>> >>)

\* References to what is no parameter: nothing, a number, a schema (which
\* has no name), a cookie parameter, another reference.
SkippedParameterRefs ==
    { RefMissing, RefNumber, RefA, Str(<<"#", "/", "defs", "/", "PC">>),
      Str(<<"#", "/", "defs", "/", "PP">>) }

\* References to what is no request body with a schema: nothing, a number,
\* a required body without content, another reference.
SkippedBodyRefs ==
    { RefMissing, RefNumber, Str(<<"#", "/", "defs", "/", "RN">>),
      Str(<<"#", "/", "defs", "/", "RR">>) }

\* Operations with such a reference between two parameters that are kept.
SkippedRefOperations ==
    { OperationOf(<< D(<< <<"name", S("a")>>, <<"in", S("path")>>,
                          <<"required", Bool(TRUE)>>, <<"schema", TInteger>> >>),
                     Ref(r),
                     QueryOf(TString) >>, Ref(rb)) :
          r \in SkippedParameterRefs, rb \in SkippedBodyRefs }

\* Path tables with entries map_tools skips, operations that fail, the
\* forms of operationId and schemas that several operations share.
PathTables ==
    { D(<< <<"/a", S("junk")>>,
           <<"/b", D(<< <<"get", SimpleOperation>>,
                        <<"fetch", SimpleOperation>>,
                        <<"post", S("junk")>>,
                        <<"parameters", List(<<>>)>>,
                        <<"GET", D(<< <<"operationId", S("x")>>,
                                      <<"description", S("d")>> >>)>> >>)>>,
           <<"/", D(<< <<"delete", D(<< <<"parameters", S("junk")>> >>)>>,
                       <<"Post", D(<< <<"operationId", Str(<<>>)>> >>)>> >>)>>,
           <<"/a/{id}", D(<< <<"put", D(<< <<"operationId", None>>,
                                           <<"description", None>> >>)>>,
                             <<"patch", D(<< <<"operationId", Num(5)>> >>)>>,
                             <<"head", D(<<>>)>> >>)>> >>),
      D(<< <<"/a", D(<< <<"get", OperationOf(
                           << D(<< <<"name", List(<<S("x")>>)>>,
                                   <<"in", S("query")>> >>) >>, None)>>,
                        <<"post", SimpleOperation>> >>)>>,
           <<"/b", D(<< <<"put", OperationOf(<<>>, Ref(Num(5)))>>,
                        <<"get", SimpleOperation>> >>)>> >>),
      SharedAlone,
      SharedBoth,
      SharedSchema,
      D(<<>>),
      None,
      List(<<>>) }

MapDocs ==
    { OneOperation(OperationOf(ps, None)) : ps \in ParamLists }
    \cup { OneOperation(OperationOf(ps, rb)) : ps \in BodyParamLists, rb \in RequestBodies }
    \cup { OneOperation(operation) : operation \in SkippedRefOperations }
    \cup { MapDoc(paths) : paths \in PathTables }
    \cup { D(<< <<"defs", MapDefs>> >>) }

MapInit ==
    /\ full_spec \in MapDocs
    /\ ConverterInit
    /\ mapper = NoMapper
    /\ naming = NoRet

MapNext ==
    \/ Step
    \/ MapTools
    \/ MapToolsReturn
    \/ NextPath
    \/ SkipEntry
    \/ MapOperation
    \/ Parameter
    \/ ParameterConverted
    \/ RequestBody
    \/ RequestBodyConverted

MapSpec == MapInit /\ [][MapNext]_vars

-----------------------------------------------------------------------------
(* Properties *)

TargetA == full_spec.m["defs"].m["A"]
TargetB == full_spec.m["defs"].m["B"]

\* The sub-schemas convert recurses into from the fragment x.
Children(x) ==
    LET cs == (IF CompositionCanHandle(x) THEN CompositionCalls(x) ELSE <<>>)
              \o (IF ObjectCanHandle(x) THEN ObjectCalls(x) ELSE <<>>)
              \o (IF ArrayCanHandle(x) THEN ArrayCalls(x) ELSE <<>>)
    IN  {cs[i] : i \in 1..Len(cs)}

\* The $ref values of x and of the fragments beneath it.
RECURSIVE RefsIn(_)
RefsIn(x) ==
    IF ~isinstance_dict(x) THEN {}
    ELSE (IF Has(x, "$ref") THEN {x.m["$ref"]} ELSE {})
         \cup UNION {RefsIn(c) : c \in Children(x)}

\* x holds a $ref that resolves to y.
Refers(x, y) ==
    \E r \in RefsIn(x) : isinstance_str(r) /\ resolve_ref(full_spec, r) = y

\* A -> B -> A
Mutual == Refers(TargetA, TargetB) /\ Refers(TargetB, TargetA)

\* v holds a fragment that carries the marker.
RECURSIVE ContainsMarker(_)
ContainsMarker(v) ==
    IF isinstance_dict(v)
    THEN MARKER \in DOMAIN v.m \/ \E key \in DOMAIN v.m : ContainsMarker(v.m[key])
    ELSE IF isinstance_list(v) THEN \E i \in 1..Len(v.xs) : ContainsMarker(v.xs[i])
    ELSE FALSE

\* The fragment d carries _is_cyclic_reference: true itself.
Marked(d) == Get(d, MARKER) = Bool(TRUE)

\* The conversions finished so far on a converter that was new.
Fresh == {i \in 1..Len(results) : results[i].v0 = {}}

\* The top frame has run its loop and is about to return.
Finishing == stack # <<>> /\ Top.wait = 0 /\ ret = NoRet /\ LoopDone(Top)

\* C1: every convert call that is started returns, whatever the arrangement of
\* the $refs of the document: the recursion never runs away.
C1_Terminates == (stack # <<>>) ~> (stack = <<>>)

C1_Witness ==
    \E i \in 1..Len(results) :
        /\ Mutual
        /\ results[i].input = Ref(RefA)
        /\ Cardinality(results[i].v1) >= 2
        /\ ContainsMarker(results[i].out)

\* C2 as stated: for A -> B -> A, convert({$ref: A}) on a new converter holds
\* the marker somewhere and its root description is "(from ref: <A>)".
C2_Original ==
    \A i \in Fresh :
        results[i].input = Ref(RefA) /\ Mutual =>
            /\ ContainsMarker(results[i].out)
            /\ Get(results[i].out, "description") = Str(FromRef(RefA))

\* C2 amended: the marker is there somewhere; the root description is
\* "(from ref: <A>)" when A has no $ref and no description of its own, and
\* when A and B are bare $refs to each other the root is the placeholder
\* of the cycle on A.
C2_Amended ==
    \A i \in Fresh :
        results[i].input = Ref(RefA) /\ Mutual =>
            /\ ContainsMarker(results[i].out)
            /\ (~Has(TargetA, "$ref") /\ ~Has(TargetA, "description") =>
                    Get(results[i].out, "description") = Str(FromRef(RefA)))
            /\ (TargetA = Ref(RefB) /\ TargetB = Ref(RefA) =>
                    results[i].out = O(CyclicPlaceholder(<<>>, RefA)))

C2_Witness ==
    \E i \in Fresh :
        /\ results[i].input = Ref(RefA)
        /\ Mutual
        /\ ~Has(TargetA, "$ref")
        /\ ContainsMarker(results[i].out)
        /\ Get(results[i].out, "description") = Str(FromRef(RefA))

\* C3 as stated: a cycle met anywhere beneath a convert call puts the marker
\* on the fragment the call returns.
C3_Original ==
    \A i \in 1..Len(results) :
        ContainsMarker(results[i].out) => Marked(results[i].out)

\* Following the $ref of x, and the $ref of its target, and so on, comes to a
\* path that was visited (visited: the paths visited when x is converted).
RECURSIVE ChainHitsCycle(_, _)
ChainHitsCycle(x, visited) ==
    /\ isinstance_dict(x)
    /\ Has(x, "$ref")
    /\ LET p == x.m["$ref"] IN
       /\ ~isinstance_list(p)
       /\ ~isinstance_dict(p)
       /\ \/ p \in visited
          \/ /\ isinstance_str(p)
             /\ LET target == resolve_ref(full_spec, p) IN
                /\ ~DescriptionRaises(target)
                /\ ~DescriptionStartsWith(target, {UNRESOLVED, NOT_OBJECT})
                /\ ChainHitsCycle(target, visited \cup {p})

\* C3 amended: the marker goes up along chains of $refs only.  The fragment a
\* convert call returns carries it exactly when the fragment is a $ref to a
\* visited path or to a target that is again such a fragment; a cycle inside a
\* property, items, additionalProperties or a composition member marks the
\* nested fragment alone.
C3_Amended ==
    /\ Finishing =>
           (Marked(Returned(Top)) <=> ChainHitsCycle(Top.schema, Top.v0))
    /\ \A i \in 1..Len(results) :
           Marked(results[i].out) <=> ChainHitsCycle(results[i].input, results[i].v0)

C3_Witness ==
    \E i \in 1..Len(results) :
        /\ results[i].input = Ref(RefA)
        /\ TargetA = Ref(RefB)
        /\ Cardinality(results[i].v1) >= 2
        /\ Marked(results[i].out)

\* The target of a $ref is a schema the handler converts: a map that is no
\* error placeholder.
Resolves(ref) ==
    /\ isinstance_str(ref)
    /\ resolve_ref(full_spec, ref) # Failure
    /\ isinstance_dict(resolve_ref(full_spec, ref))
    /\ \/ DescriptionRaises(resolve_ref(full_spec, ref))
       \/ ~DescriptionStartsWith(resolve_ref(full_spec, ref), {UNRESOLVED, NOT_OBJECT})

\* The fragment d is one of the three placeholders.
IsPlaceholder(d) ==
    /\ Has(d, "description")
    /\ isinstance_str(d.m["description"])
    /\ startswith(d.m["description"].s, PLACEHOLDERS)

C5_Original ==
    \A i \in 1..Len(results) :
        LET x == results[i].input IN
        /\ isinstance_dict(x)
        /\ Has(x, "$ref")
        /\ Resolves(x.m["$ref"])
        /\ ~DescriptionRaises(resolve_ref(full_spec, x.m["$ref"]))
        /\ x.m["$ref"] \notin results[i].v0
        /\ ~IsPlaceholder(results[i].out)
        => Get(results[i].out, "description") \in
               { Annotation(x, x.m["$ref"]),
                 Annotation(resolve_ref(full_spec, x.m["$ref"]), x.m["$ref"]) }

\* current[part] as the claim has it: a list is indexed by 0 .. len - 1.
PointerSubscript(current, decoded_part) ==
    IF isinstance_list(current)
    THEN IF IsInt(decoded_part) /\ IntTable[decoded_part] \in 0..(Len(current.xs) - 1)
         THEN current.xs[IntTable[decoded_part] + 1] ELSE Failure
    ELSE IF isinstance_dict(current) /\ Has(current, decoded_part)
         THEN current.m[decoded_part]
    ELSE Failure

PointerWalk(spec, parts) ==
    LET at[i \in 0..Len(parts)] ==
            IF i = 0 THEN spec
            ELSE IF at[i - 1] = Failure THEN Failure
            ELSE PointerSubscript(at[i - 1], unquote(parts[i]))
    IN  at[Len(parts)]

\* What C6 says resolve_ref(ref) returns.
ClaimedResolve(spec, ref) ==
    IF ~isinstance_str(ref) THEN UnresolvedPlaceholder(ref)
    ELSE IF ~(Len(ref.s) >= 2 /\ ref.s[1] = "#" /\ ref.s[2] = "/")
         THEN UnresolvedPlaceholder(ref)
    ELSE LET target == PointerWalk(spec, Split(SubSeq(ref.s, 3, Len(ref.s)))) IN
         IF target = Failure THEN UnresolvedPlaceholder(ref)
         ELSE IF ~isinstance_dict(target) THEN NotObjectPlaceholder(ref)
         ELSE target

\* C6 as stated: resolve_ref never raises; a path that does not start with
\* "#/" or a failing traversal (missing key, bad or out-of-range index,
\* non-container on the way) gives the unresolved placeholder, a value that
\* is no map gives the not-an-object placeholder, else the target map.
C6_Original ==
    resolved # NoRet => resolved.out = ClaimedResolve(full_spec, resolved.ref)

\* C7 as stated: converting a fragment whose $ref cannot be resolved returns
\* the description "Unresolved reference: <refPath>", whatever other keywords
\* (a sibling description, say) the fragment has.
C7_Original ==
    \A i \in 1..Len(results) :
        LET x == results[i].input IN
        /\ isinstance_dict(x)
        /\ Has(x, "$ref")
        /\ isinstance_str(x.m["$ref"])
        /\ x.m["$ref"] \notin results[i].v0
        /\ resolve_ref(full_spec, x.m["$ref"]) = UnresolvedPlaceholder(x.m["$ref"])
        => Get(results[i].out, "description")
               = Str(<<UNRESOLVED, " ">> \o x.m["$ref"].s)

\* C8: for an input that is no map convert returns the empty map at once: no
\* handler is applied, none raises, and the visited set is as it was.
C8_NonMap ==
    /\ \A i \in 1..Len(results) :
           ~isinstance_dict(results[i].input) =>
               /\ results[i].out = O(<<>>)
               /\ results[i].ran = <<>>
               /\ results[i].raised = {}
               /\ results[i].v1 = results[i].v0
    /\ stack # <<>> /\ ~isinstance_dict(Top.schema) =>
           /\ Finishing
           /\ Returned(Top) = O(<<>>)
           /\ Top.ran = <<>>
           /\ Top.raised = {}
           /\ visited_refs = Top.v0
    /\ ret # NoRet => isinstance_dict(ret)

C8_Witness ==
    \E i \in 1..Len(results) :
        /\ results[i].input = List(<<>>)
        /\ results[i].v0 # {}
        /\ results[i].out = O(<<>>)

\* The handlers that apply to os, in the order of the list of the converter.
RECURSIVE ApplicableFrom(_, _)
ApplicableFrom(i, os) ==
    IF i > H_COMMON THEN <<>>
    ELSE (IF CanHandle(i, os) THEN <<i>> ELSE <<>>) \o ApplicableFrom(i + 1, os)

Applicable(os) == ApplicableFrom(H_REFERENCE, os)

\* The fragment the handlers String, Number and Common build for os.
PartlyBuilt(os) ==
    LET j0 == InitialJsonSchema(os)
        j1 == IF StringCanHandle(os) THEN StringHandle(os, j0) ELSE j0
        j2 == IF NumberCanHandle(os) THEN NumberHandle(os, j1) ELSE j1
    IN  O(CommonHandle(os, j2))

\* C9: when a handler raises on a map, convert goes on: every handler that
\* applies is run, in order, and the call returns the fragment the others
\* have built; the raise does not leave the call.
C9_Inv ==
    /\ \A i \in 1..Len(results) :
           isinstance_dict(results[i].input) =>
               /\ results[i].ran = Applicable(results[i].input)
               /\ results[i].raised \subseteq {results[i].ran[n] : n \in 1..Len(results[i].ran)}
               /\ (/\ results[i].raised = {H_REFERENCE}
                   /\ \A n \in {H_COMPOSITION, H_OBJECT, H_ARRAY} :
                          ~CanHandle(n, results[i].input))
                  => results[i].out = PartlyBuilt(results[i].input)
    /\ \A n \in 1..Len(stack) :
           stack[n].raised # {} /\ stack[n].wait = 0 =>
               stack[n].ran = SubSeq(Applicable(stack[n].schema), 1, Len(stack[n].ran))

C9_Witness ==
    \E i \in 1..Len(results) :
        /\ results[i].raised = {H_REFERENCE}
        /\ results[i].ran = <<H_REFERENCE, H_STRING, H_COMMON>>
        /\ results[i].out = O(("type" :> S("string")) @@ ("description" :> S("R")))

\* The number of "null" entries of a type list.
NullCount(xs) == Cardinality({n \in 1..Len(xs) : xs[n] = S("null")})

\* The conversions finished so far in which only String, Number and Common ran.
Plain ==
    {i \in 1..Len(results) :
        /\ isinstance_dict(results[i].input)
        /\ \A n \in 1..Len(results[i].ran) :
               results[i].ran[n] \in {H_STRING, H_NUMBER, H_COMMON}}

\* C10 as stated: with nullable: true and a type set, the type becomes
\* [type, "null"], or gets "null" appended when it is a list, and "null" is
\* never there twice; otherwise the type is unchanged.
C10_Original ==
    \A i \in Plain :
        LET os == results[i].input
            before == InitialJsonSchema(os)
            after == results[i].out.m
        IN  IF Truthy(Get(os, "nullable")) /\ "type" \in DOMAIN before
            THEN /\ "type" \in DOMAIN after
                 /\ isinstance_list(after["type"])
                 /\ NullCount(after["type"].xs) = 1
                 /\ IF isinstance_list(before["type"])
                    THEN after["type"].xs \in
                             {before["type"].xs, Append(before["type"].xs, S("null"))}
                    ELSE after["type"] = List(<<before["type"], S("null")>>)
            ELSE ("type" \in DOMAIN after) = ("type" \in DOMAIN before)
                 /\ ("type" \in DOMAIN before => after["type"] = before["type"])

\* C10 amended: as stated, but a type that is the string "null" already is
\* left as it is; a list gets "null" appended only if it does not hold it;
\* handling the result again changes nothing.
C10_Amended ==
    \A i \in Plain :
        LET os == results[i].input
            before == InitialJsonSchema(os)
            after == results[i].out.m
        IN  /\ IF Truthy(Get(os, "nullable")) /\ "type" \in DOMAIN before
               THEN /\ "type" \in DOMAIN after
                    /\ IF isinstance_list(before["type"])
                       THEN after["type"] =
                                IF NullCount(before["type"].xs) = 0
                                THEN List(Append(before["type"].xs, S("null")))
                                ELSE before["type"]
                       ELSE IF before["type"] = S("null")
                            THEN after["type"] = S("null")
                            ELSE after["type"] = List(<<before["type"], S("null")>>)
                    /\ isinstance_list(after["type"]) =>
                           NullCount(after["type"].xs) = 1
               ELSE ("type" \in DOMAIN after) = ("type" \in DOMAIN before)
                    /\ ("type" \in DOMAIN before => after["type"] = before["type"])
            /\ _handle_nullable(os, after) = after

C10_Witness ==
    \E i \in Plain :
        /\ Truthy(Get(results[i].input, "nullable"))
        /\ Get(results[i].input, "type") = S("string")
        /\ Get(results[i].out, "type") = List(<<S("string"), S("null")>>)

\* C11: no step of a conversion changes the Full Specification or the
\* fragment the caller passed to convert: both stay equal to what they were
\* before the call, also for a fragment whose type is a list and which is
\* nullable.
C11_Original ==
    [][/\ full_spec' = full_spec
       /\ (stack # <<>> => input_obj' = input_obj)]_vars

\* The path holds nothing but slashes, so that stripping them leaves an
\* empty segment.
OnlySlashes(path) == \A i \in 1..Len(path) : path[i] = "/"

\* C20: generate_tool_name(method, path) returns the lower-cased method, "_"
\* and the processed path, and <method>_root whenever the path segment that
\* is left after the slashes are stripped is empty; ("GET", "/") gives
\* get_root, ("POST", "/users") post_users, ("GET", "/users/{userId}")
\* get_users_by_userId and ("PoSt", "/complex/path") post_complex_path.
C20_Names ==
    naming # NoRet /\ naming.name # None =>
        LET m == naming.method
            p == naming.path
            name == naming.name.s
            rest == SubSeq(name, Len(m) + 2, Len(name))
        IN  /\ Len(name) > Len(m)
            /\ \A i \in 1..Len(m) : name[i] = lower_char(m[i])
            /\ name[Len(m) + 1] = "_"
            /\ rest = IF OnlySlashes(p) THEN <<"r", "o", "o", "t">>
                      ELSE processed_path(path_segment(p))
            /\ (m = <<"G", "E", "T">> /\ p = <<"/">>
                   => name = <<"g", "e", "t", "_", "r", "o", "o", "t">>)
            /\ (m = <<"P", "O", "S", "T">> /\ p = <<"/", "u", "s", "e", "r", "s">>
                   => name = <<"p", "o", "s", "t", "_", "u", "s", "e", "r", "s">>)
            /\ (m = <<"G", "E", "T">>
                /\ p = <<"/", "u", "s", "e", "r", "s", "/",
                         "{", "u", "s", "e", "r", "I", "d", "}">>
                   => name = <<"g", "e", "t", "_", "u", "s", "e", "r", "s", "_",
                               "b", "y", "_", "u", "s", "e", "r", "I", "d">>)
            /\ (m = <<"P", "o", "S", "t">>
                /\ p = <<"/", "c", "o", "m", "p", "l", "e", "x", "/", "p", "a", "t", "h">>
                   => name = <<"p", "o", "s", "t", "_", "c", "o", "m", "p", "l", "e", "x",
                               "_", "p", "a", "t", "h">>)

\* A mixed-case method has been named for a path of two segments.
C20_Witness ==
    /\ naming # NoRet
    /\ naming.method = <<"P", "o", "S", "t">>
    /\ naming.path = <<"/", "c", "o", "m", "p", "l", "e", "x", "/", "p", "a", "t", "h">>
    /\ naming.name = Str(<<"p", "o", "s", "t", "_", "c", "o", "m", "p", "l", "e", "x",
                           "_", "p", "a", "t", "h">>)

\* The outcomes of map_tools that are tool lists.
ToolLists == {i \in 1..Len(mapper.outs) : mapper.outs[i].k = "tools"}

\* C12: map_tools either returns a tool list or raises one MappingError,
\* and it raises exactly when paths is present and is not a map: a failure
\* inside one operation, parameter or schema never makes it raise.
C12_ReturnsOrRaises ==
    \A i \in 1..Len(mapper.outs) :
        LET out == mapper.outs[i] IN
        IF Has(full_spec, "paths") /\ ~isinstance_dict(full_spec.m["paths"])
        THEN out.k = "raise" /\ out.error = "MappingError"
        ELSE out.k = "tools"

\* map_tools has returned a tool although the mapping of another operation
\* of the document raised.
C12_Witness ==
    \E i \in ToolLists :
        mapper.outs[i].tools # <<>> /\ mapper.outs[i].failed # <<>>

\* The entry of a path item is one map_tools maps: the method is one of the
\* eight verbs, in any case, and the operation is a map.
Eligible(method, operation) ==
    /\ lower(Chars(method)) \in HTTP_METHODS
    /\ isinstance_dict(operation)

RECURSIVE Flatten(_)
Flatten(seqs) == IF seqs = <<>> THEN <<>> ELSE Head(seqs) \o Flatten(Tail(seqs))

\* The (path, method) entries of the document that satisfy Eligible, in
\* document order.
EntriesOfPath(path) ==
    LET item == PathsOf(full_spec).m[path] IN
    LET Keep(entry) == Eligible(entry[2], item.m[entry[2]]) IN
    IF ~isinstance_dict(item) THEN <<>>
    ELSE SelectSeq([i \in 1..Len(item.ord) |-> <<path, item.ord[i]>>], Keep)

Entries ==
    LET paths == PathsOf(full_spec) IN
    Flatten([i \in 1..Len(paths.ord) |-> EntriesOfPath(paths.ord[i])])

OperationAt(entry) == PathsOf(full_spec).m[entry[1]].m[entry[2]]

\* Resolving the $ref of a parameter or of a request body raises.
RefRaises(x) ==
    /\ isinstance_dict(x)
    /\ Has(x, "$ref")
    /\ resolve_ref(full_spec, x.m["$ref"]).k = "raise"

Deref(x) ==
    IF isinstance_dict(x) /\ Has(x, "$ref") THEN resolve_ref(full_spec, x.m["$ref"])
    ELSE x

\* The element of a parameters list is kept: a map, after its $ref is
\* resolved, with a non-empty name and in among path, query and header.
KeptParameter(x) ==
    /\ ~RefRaises(x)
    /\ isinstance_dict(Deref(x))
    /\ Truthy(Get(Deref(x), "name"))
    /\ Get(Deref(x), "in") \in {S("path"), S("query"), S("header")}

\* The request body has a schema that is converted.
UsableBody(body) ==
    /\ ~RefRaises(body)
    /\ RequestBodyPlan(full_spec, body, <<>>).op = "call"

\* The names the operation marks required.
MarkedRequired(operation) ==
    UNION {{Deref(ps[i]).m["name"] :
               i \in {n \in 1..Len(ps) : /\ KeptParameter(ps[n])
                                         /\ Truthy(GetOrFalse(Deref(ps[n]), "required"))}} :
           ps \in {ParametersOf(operation)}}
    \cup (IF \E body \in {Get(operation, "requestBody")} :
                 UsableBody(body) /\ Truthy(GetOrFalse(Deref(body), "required"))
          THEN {REQUEST_BODY} ELSE {})

\* The mapping of the operation raises an exception: a $ref that cannot be
\* resolved as a string, a kept parameter whose name cannot be a key, or
\* required names that cannot be ordered.
MappingRaises(operation) ==
    \E ps \in {ParametersOf(operation)} :
    \/ \E i \in 1..Len(ps) : RefRaises(ps[i])
    \/ \E i \in 1..Len(ps) : KeptParameter(ps[i]) /\ ~Hashable(Deref(ps[i]).m["name"])
    \/ RefRaises(Get(operation, "requestBody"))
    \/ ~Orderable(MarkedRequired(operation))

\* What the provenance of a tool records for the entry it was mapped from.
\* The name generate_tool_name derives, for every method key and path key.
DerivedName == [method \in DOMAIN CharsOfKey, path \in DOMAIN CharsOfKey |-> Str(generate_tool_name(Chars(method), Chars(path)))]

\* path as it is written, and method.upper(), for every key.
WrittenKey == [key \in DOMAIN CharsOfKey |-> Str(Chars(key))]
UpperKey == [key \in DOMAIN CharsOfKey |-> Str(upper(Chars(key)))]

Provenance(entry) == <<WrittenKey[entry[1]], UpperKey[entry[2]]>>

ProvenanceOf(tool) == <<tool._original_path, tool._original_method>>

\* C13 as stated: map_tools returns exactly one tool, in document order,
\* for every entry whose path item is a map, whose method is one of the
\* eight verbs and whose operation is a map, and an operation whose
\* parameters is not a list yields a tool with no processed parameter.
C13_Original ==
    \A i \in ToolLists :
        LET tools == mapper.outs[i].tools IN
        /\ [j \in 1..Len(tools) |-> ProvenanceOf(tools[j])]
               = [j \in 1..Len(Entries) |-> Provenance(Entries[j])]
        /\ \A j \in 1..Len(tools) :
               LET parameters == Get(OperationAt(Entries[j]), "parameters") IN
               (Has(OperationAt(Entries[j]), "parameters") /\ ~isinstance_list(parameters))
                   => tools[j]._original_parameters = <<>>

\* C13, amended: the tools are, in document order, those of the eligible
\* entries whose mapping raises no exception; the entries whose mapping
\* raises yield no tool.
C13_Amended ==
    ToolLists # {} =>
    LET Mapped(entry) == \E operation \in {OperationAt(entry)} : ~MappingRaises(operation) IN
    \E kept \in {SelectSeq(Entries, Mapped)} :
    \A i \in ToolLists :
        LET tools == mapper.outs[i].tools IN
        /\ [j \in 1..Len(tools) |-> ProvenanceOf(tools[j])]
               = [j \in 1..Len(kept) |-> Provenance(kept[j])]
        /\ \A j \in 1..Len(tools) :
               LET parameters == Get(OperationAt(kept[j]), "parameters") IN
               (Has(OperationAt(kept[j]), "parameters") /\ ~isinstance_list(parameters))
                   => tools[j]._original_parameters = <<>>

\* map_tools has returned the tools of a path table that holds a path item
\* that is no map, a key that is no verb, an operation that is no map and
\* an operation whose parameters is no list.
C13_Witness ==
    \E i \in ToolLists :
        LET tools == mapper.outs[i].tools IN
        LET paths == PathsOf(full_spec) IN
        /\ Len(tools) = Len(Entries)
        /\ \E p \in DOMAIN paths.m : ~isinstance_dict(paths.m[p])
        /\ \E p \in DOMAIN paths.m :
               /\ isinstance_dict(paths.m[p])
               /\ \E m \in DOMAIN paths.m[p].m : ~isinstance_dict(paths.m[p].m[m])
               /\ \E m \in DOMAIN paths.m[p].m :
                      /\ isinstance_dict(paths.m[p].m[m])
                      /\ ~Eligible(m, paths.m[p].m[m])
        /\ \E j \in 1..Len(tools) :
               /\ Has(OperationAt(Entries[j]), "parameters")
               /\ ~isinstance_list(OperationAt(Entries[j]).m["parameters"])
               /\ tools[j]._original_parameters = <<>>

\* C14 as stated: the name of a tool is the operationId of its operation
\* if the operation has one, and otherwise the name generate_tool_name
\* derives from the method and the path; the provenance holds the
\* upper-cased method and the path key as it is written.
C14_Original ==
    \A i \in ToolLists :
        LET out == mapper.outs[i] IN
        \A j \in 1..Len(out.tools) :
            LET entry == out.mapped[j] IN
            LET operation == OperationAt(entry) IN
            /\ out.tools[j].name =
                   IF Has(operation, "operationId") THEN operation.m["operationId"]
                   ELSE Str(generate_tool_name(Chars(entry[2]), Chars(entry[1])))
            /\ ProvenanceOf(out.tools[j]) = Provenance(entry)

\* C14, amended: the name is the operationId when the operation has one
\* that is truthy (not null, not empty, not zero), and the derived name
\* otherwise.
C14_Amended ==
    \A i \in ToolLists :
        \E out \in {mapper.outs[i]} :
        \A j \in 1..Len(out.tools) :
            \E entry \in {out.mapped[j]} :
            \E operation \in {OperationAt(entry)} :
            /\ out.tools[j].name =
                   IF Has(operation, "operationId") /\ Truthy(operation.m["operationId"])
                   THEN operation.m["operationId"]
                   ELSE DerivedName[entry[2], entry[1]]
            /\ ProvenanceOf(out.tools[j]) = Provenance(entry)

\* map_tools has returned a tool named by its operationId, a tool with a
\* derived name and a tool whose empty operationId gave way to the derived
\* name.
C14_Witness ==
    \E i \in ToolLists :
        LET out == mapper.outs[i] IN
        /\ \E j \in 1..Len(out.tools) :
               /\ Get(OperationAt(out.mapped[j]), "operationId") = S("x")
               /\ out.tools[j].name = S("x")
               /\ out.tools[j]._original_method = Str(<<"G", "E", "T">>)
        /\ \E j \in 1..Len(out.tools) :
               /\ ~Has(OperationAt(out.mapped[j]), "operationId")
               /\ out.tools[j].name = Str(<<"g", "e", "t", "_", "b">>)
        /\ \E j \in 1..Len(out.tools) :
               /\ Get(OperationAt(out.mapped[j]), "operationId") = Str(<<>>)
               /\ out.tools[j].name = Str(<<"p", "o", "s", "t", "_", "r", "o", "o", "t">>)

\* C15: in every tool map_tools returns, inputSchema.required is in
\* strictly ascending order: sorted, and without duplicates, whatever the
\* order of the parameters and the request body, also when parameters
\* share a name or a required parameter is named requestBody.
C15_SortedRequired ==
    \A i \in ToolLists :
        \A j \in 1..Len(mapper.outs[i].tools) :
            LET required == mapper.outs[i].tools[j].inputSchema.required IN
            \A a, b \in 1..Len(required) :
                a < b => Less(required[a], required[b])

\* map_tools has returned a tool with a required request body and two
\* required parameters, declared in descending order, of which one is named
\* requestBody.
C15_Witness ==
    \E i \in ToolLists : \E j \in 1..Len(mapper.outs[i].tools) :
        LET tool == mapper.outs[i].tools[j] IN
        /\ Len(tool._original_parameters) = 2
        /\ tool._original_parameters[1].name = S("z")
        /\ tool._original_parameters[1].required = Bool(TRUE)
        /\ tool._original_parameters[2].name = REQUEST_BODY
        /\ tool._original_parameters[2].required = Bool(TRUE)
        /\ tool._original_request_body # None
        /\ tool._original_request_body.content_type # None
        /\ tool._original_request_body.required = Bool(TRUE)
        /\ tool.inputSchema.required = <<REQUEST_BODY, S("z")>>

\* The request body of an operation, its $ref resolved.
BodyOf(operation) == Deref(Get(operation, "requestBody"))

\* The request body declares application/json and another media type.
DeclaresBoth(body) ==
    /\ isinstance_dict(body)
    /\ isinstance_dict(Get(body, "content"))
    /\ Has(body.m["content"], "application/json")
    /\ \E other \in DOMAIN body.m["content"].m : other # "application/json"

\* The provenance of the request body records the content type.
Records(tool, content_type) ==
    /\ tool._original_request_body # None
    /\ tool._original_request_body.content_type = content_type

\* The provenance of the request body records no content type.
RecordsNoType(tool) ==
    \/ tool._original_request_body = None
    \/ tool._original_request_body.content_type = None

\* C16 as stated: when the content of a request body declares
\* application/json and another media type, the content type in the
\* provenance is application/json, in whichever order they are declared and
\* whatever the application/json entry holds.
C16_Original ==
    \A i \in ToolLists : \A j \in 1..Len(mapper.outs[i].tools) :
        DeclaresBoth(BodyOf(OperationAt(mapper.outs[i].mapped[j])))
            => Records(mapper.outs[i].tools[j], S("application/json"))

\* C16, amended: application/json is recorded, in whichever order the types
\* are declared, when its entry is a map that holds a map schema.  When its
\* entry is a map without a map schema no content type is recorded; when
\* its entry is no map the first declared type is recorded if its entry is
\* a map with a map schema, and no content type otherwise.
C16_Amended ==
    \A i \in ToolLists : \A j \in 1..Len(mapper.outs[i].tools) :
        LET body == BodyOf(OperationAt(mapper.outs[i].mapped[j])) IN
        LET tool == mapper.outs[i].tools[j] IN
        DeclaresBoth(body) =>
            LET content == body.m["content"] IN
            LET json == content.m["application/json"] IN
            LET first == content.m[content.ord[1]] IN
            IF isinstance_dict(json)
            THEN IF isinstance_dict(Get(json, "schema"))
                 THEN Records(tool, S("application/json"))
                 ELSE RecordsNoType(tool)
            ELSE IF isinstance_dict(first) /\ isinstance_dict(Get(first, "schema"))
                 THEN Records(tool, S(content.ord[1]))
                 ELSE RecordsNoType(tool)

\* map_tools has returned the tool of a request body that declares
\* text/plain first and application/json second, both with a schema, and
\* application/json is recorded.
C16_Witness ==
    \E i \in ToolLists : \E j \in 1..Len(mapper.outs[i].tools) :
        LET body == BodyOf(OperationAt(mapper.outs[i].mapped[j])) IN
        /\ DeclaresBoth(body)
        /\ body.m["content"].ord = <<"text/plain", "application/json">>
        /\ isinstance_dict(Get(body.m["content"].m["text/plain"], "schema"))
        /\ Records(mapper.outs[i].tools[j], S("application/json"))

\* The request body of the operation is marked required and no schema of it
\* is converted: content is missing, empty or no map, or the chosen media
\* type holds no map schema.
RequiredWithoutSchema(operation) ==
    LET body == Get(operation, "requestBody") IN
    /\ isinstance_dict(BodyOf(operation))
    /\ Truthy(GetOrFalse(BodyOf(operation), "required"))
    /\ ~UsableBody(body)

\* C17 as stated: whenever the request body of an operation is marked
\* required and no usable schema is found for it, the provenance of the
\* request body is {required: true, content_type: null} and
\* inputSchema.properties has no requestBody entry.
C17_Original ==
    \A i \in ToolLists : \A j \in 1..Len(mapper.outs[i].tools) :
        LET tool == mapper.outs[i].tools[j] IN
        RequiredWithoutSchema(OperationAt(mapper.outs[i].mapped[j])) =>
            /\ tool._original_request_body
                   = [required |-> Bool(TRUE), content_type |-> None]
            /\ REQUEST_BODY \notin DOMAIN tool.inputSchema.properties

\* A kept parameter of the operation is named requestBody.
ParameterNamedBody(operation) ==
    LET ps == ParametersOf(operation) IN
    {i \in 1..Len(ps) : KeptParameter(ps[i]) /\ Deref(ps[i]).m["name"] = REQUEST_BODY}

Requires(tool, name) ==
    \E a \in 1..Len(tool.inputSchema.required) : tool.inputSchema.required[a] = name

KeptParameters(operation) ==
    LET ps == ParametersOf(operation) IN
    LET kept == SelectSeq(ps, KeptParameter) IN
    [n \in 1..Len(kept) |-> Deref(kept[n])]

\* C19 as stated: a parameter is kept exactly when it is a map with a
\* non-empty name and in among path, query and header; every kept
\* parameter has its converted schema, with its description, under
\* properties[name], a {name, in, required} record in the processed
\* parameters, in declaration order, and its name in required exactly when
\* it is marked required; the other parameters contribute nothing.
C19_Original ==
    \A i \in ToolLists : \A j \in 1..Len(mapper.outs[i].tools) :
        LET tool == mapper.outs[i].tools[j] IN
        LET kept == KeptParameters(OperationAt(mapper.outs[i].mapped[j])) IN
        LET converted == mapper.outs[i].schemas[j] IN
        /\ tool._original_parameters
               = [n \in 1..Len(kept) |->
                     [name |-> kept[n].m["name"], in |-> kept[n].m["in"],
                      required |-> GetOrFalse(kept[n], "required")]]
        /\ \A n \in 1..Len(kept) :
               /\ kept[n].m["name"] \in DOMAIN tool.inputSchema.properties
               /\ tool.inputSchema.properties[kept[n].m["name"]] = converted[n]
               /\ Has(kept[n], "description")
                      => Get(converted[n], "description") = kept[n].m["description"]
               /\ Requires(tool, kept[n].m["name"])
                      <=> Truthy(GetOrFalse(kept[n], "required"))
        /\ \A name \in DOMAIN tool.inputSchema.properties :
               \/ \E n \in 1..Len(kept) : kept[n].m["name"] = name
               \/ name = REQUEST_BODY /\ UsableBody(Get(OperationAt(mapper.outs[i].mapped[j]),
                                                        "requestBody"))

\* The characters [A-Za-z0-9_].
NameChars ==
    {Ascii[i] : i \in Ord("0")..Ord("9")} \cup {Ascii[i] : i \in Ord("A")..Ord("Z")}
        \cup {Ascii[i] : i \in Ord("a")..Ord("z")} \cup {"_"}

\* The characters of s at the positions keep, in their order.
Pick(s, keep) ==
    [k \in 1..Cardinality(keep) |->
        s[CHOOSE i \in keep : Cardinality({j \in keep : j <= i}) = k]]

\* s with every run of "_" shortened to one "_".
Squeezed(s) == Pick(s, {i \in 1..Len(s) : s[i] # "_" \/ i = 1 \/ s[i - 1] # "_"})

\* sub is a contiguous part of s.
Within(sub, s) ==
    \E k \in 0..(Len(s) - Len(sub)) : SubSeq(s, k + 1, k + Len(sub)) = sub

\* The pattern \{([^}]+)\} matches in s from position i on.
MatchesAt(s, i) ==
    /\ i + 2 <= Len(s)
    /\ s[i] = "{"
    /\ s[i + 1] # "}"
    /\ \E j \in (i + 2)..Len(s) : s[j] = "}"

\* The "}" that ends the match that starts at i.
MatchEnd(s, i) == CHOOSE j \in (i + 2)..Len(s) : s[j] = "}" /\ \A l \in (i + 2)..(j - 1) : s[l] # "}"

\* The positions where the placeholders of s start: the matches of the
\* pattern, from left to right, that do not overlap an earlier one.
RECURSIVE PlaceholdersUpTo(_, _)
PlaceholdersUpTo(s, n) ==
    IF n = 0 THEN {}
    ELSE LET before == PlaceholdersUpTo(s, n - 1) IN
         IF MatchesAt(s, n) /\ \A i \in before : MatchEnd(s, i) < n
         THEN before \cup {n} ELSE before

Placeholders(s) == PlaceholdersUpTo(s, Len(s))

ParamName(s, i) == SubSeq(s, i + 1, MatchEnd(s, i) - 1)

\* A name has been generated for a path whose segment is not empty.
Named == naming # NoRet /\ naming.name # None /\ path_segment(naming.path) # <<>>

\* The part of the generated name after the method and its "_".
PathPart == SubSeq(naming.name.s, Len(naming.method) + 2, Len(naming.name.s))

\* The path part holds only characters of [A-Za-z0-9_], no two "_" in a
\* row and no "_" at its beginning.
WellFormedPart ==
    /\ \A i \in 1..Len(PathPart) : PathPart[i] \in NameChars
    /\ \A i \in 1..(Len(PathPart) - 1) : ~(PathPart[i] = "_" /\ PathPart[i + 1] = "_")
    /\ PathPart # <<>> => PathPart[1] # "_"

\* C21 as stated: the path part of a generated name holds only characters
\* of [A-Za-z0-9_], no two consecutive underscores and no leading
\* underscore, and every {param} placeholder appears in the name as
\* _by_<param> with the "." and "-" of the parameter name turned into "_".
C21_Original ==
    Named =>
        /\ WellFormedPart
        /\ \A i \in Placeholders(path_segment(naming.path)) :
               LET param == ParamName(path_segment(naming.path), i) IN
               Within(<<"_", "b", "y", "_">>
                          \o [n \in 1..Len(param) |->
                                 IF param[n] \in {".", "-"} THEN "_" ELSE param[n]],
                      naming.name.s)

\* C21, amended: every {param} placeholder appears in the name as
\* _by_<param> with every character of the parameter name outside
\* [A-Za-z0-9_] turned into "_" and every run of "_" collapsed to one.
C21_Amended ==
    Named =>
        /\ WellFormedPart
        /\ \A i \in Placeholders(path_segment(naming.path)) :
               LET param == ParamName(path_segment(naming.path), i) IN
               Within(Squeezed(<<"_", "b", "y", "_">>
                                   \o [n \in 1..Len(param) |->
                                          IF param[n] \in NameChars THEN param[n]
                                          ELSE "_"]),
                      naming.name.s)

\* A name has been generated for a path with a placeholder whose parameter
\* name holds a "." and a "-".
C21_Witness ==
    /\ Named
    /\ naming.path = <<"/", "x", "/", "{", "a", ".", "b", "-", "c", "}">>
    /\ Placeholders(path_segment(naming.path)) = {3}
    /\ naming.name = Str(<<"g", "e", "t", "_", "x", "_", "b", "y", "_", "a", "_", "b", "_", "c">>)

-----------------------------------------------------------------------------
(* C22: the composition keywords *)

\* The map entries of the list under key, in source order.
MapEntries(os, key) ==
    LET v == Get(os, key) IN
    IF isinstance_list(v) THEN SelectSeq(v.xs, isinstance_dict) ELSE <<>>

\* The value under "not" when it is a single map.
NotEntry(os) ==
    LET v == Get(os, "not") IN IF isinstance_dict(v) THEN <<v>> ELSE <<>>

\* Everything the composition handler may convert, in the order of its loop.
Converted(os) ==
    MapEntries(os, "allOf") \o MapEntries(os, "oneOf")
        \o MapEntries(os, "anyOf") \o NotEntry(os)

\* How many conversions come before the ones of key.
Before(os, key) ==
    CASE key = "allOf" -> 0
      [] key = "oneOf" -> Len(MapEntries(os, "allOf"))
      [] key = "anyOf" -> Len(MapEntries(os, "allOf")) + Len(MapEntries(os, "oneOf"))
      [] key = "not" -> Len(Converted(os)) - Len(NotEntry(os))

\* The step is the composition handler of the top frame calling convert.
CompositionCalling ==
    /\ stack # <<>>
    /\ Len(stack') = Len(stack) + 1
    /\ stack'[Len(stack)].wait = H_COMPOSITION

\* The step is the composition handler of the top frame returning.
CompositionReturning ==
    /\ stack # <<>>
    /\ Len(stack') = Len(stack)
    /\ Top.h < H_COMPOSITION
    /\ stack'[Len(stack)].h = H_COMPOSITION

\* What the convert calls of the returning handler have returned.
CompositionResults == IF Top.wait = H_COMPOSITION THEN Append(Top.acc, ret) ELSE <<>>

C22_Handler ==
    /\ CompositionCalling =>
           LET n == Len(stack'[Len(stack)].acc) + 1 IN
           /\ n <= Len(Converted(Top.schema))
           /\ stack'[Len(stack')].schema = Converted(Top.schema)[n]
    /\ CompositionReturning =>
           LET os == Top.schema
               rs == CompositionResults
               js == stack'[Len(stack)].js
           IN  /\ Len(rs) = Len(Converted(os))
               /\ \A key \in {"allOf", "anyOf", "oneOf"} :
                      LET n == Len(MapEntries(os, key)) IN
                      IF n > 0
                      THEN /\ key \in DOMAIN js
                           /\ js[key] = List(SubSeq(rs, Before(os, key) + 1,
                                                    Before(os, key) + n))
                      ELSE /\ key \in DOMAIN js <=> key \in DOMAIN Top.js
                           /\ key \in DOMAIN js => js[key] = Top.js[key]
               /\ IF NotEntry(os) # <<>>
                  THEN "not" \in DOMAIN js /\ js["not"] = rs[Len(rs)]
                  ELSE /\ "not" \in DOMAIN js <=> "not" \in DOMAIN Top.js
                       /\ "not" \in DOMAIN js => js["not"] = Top.js["not"]

\* C22: for allOf, anyOf and oneOf the output keyword is present exactly
\* when the source value is a list with at least one map entry, and then it
\* holds the conversions of the map entries only, in source order; an empty
\* list, a list without map entries or a value that is no list leaves the
\* keyword as it was and makes no convert call; "not" is converted only when
\* its value is a single map.  For a schema without "$ref" nothing else sets
\* the keywords, so the output of convert has a keyword exactly in these cases.
C22_Composition ==
    [][/\ C22_Handler
       /\ \A i \in DOMAIN results' :
              LET r == results'[i] IN
              (isinstance_dict(r.input) /\ ~Has(r.input, "$ref")) =>
                  /\ \A key \in {"allOf", "anyOf", "oneOf"} :
                         /\ Has(r.out, key) <=> MapEntries(r.input, key) # <<>>
                         /\ Has(r.out, key) =>
                                /\ isinstance_list(r.out.m[key])
                                /\ Len(r.out.m[key].xs) = Len(MapEntries(r.input, key))
                  /\ Has(r.out, "not") <=> isinstance_dict(Get(r.input, "not"))]_vars

\* A oneOf of two maps around a number was converted to the two conversions;
\* the empty allOf, the string anyOf and the list under "not" left nothing.
C22_Witness ==
    \E i \in DOMAIN results :
        LET r == results[i] IN
        /\ isinstance_dict(r.input)
        /\ isinstance_list(Get(r.input, "oneOf"))
        /\ Len(Get(r.input, "oneOf").xs) = 3
        /\ Get(r.input, "allOf") = List(<<>>)
        /\ isinstance_str(Get(r.input, "anyOf"))
        /\ isinstance_list(Get(r.input, "not"))
        /\ H_COMPOSITION \in {r.ran[n] : n \in DOMAIN r.ran}
        /\ Has(r.out, "oneOf")
        /\ Len(r.out.m["oneOf"].xs) = 2
        /\ r.out.m["oneOf"].xs[1].m["type"] = Str(<<"string">>)
        /\ r.out.m["oneOf"].xs[2].m["type"] = Str(<<"integer">>)
        /\ ~Has(r.out, "allOf") /\ ~Has(r.out, "anyOf") /\ ~Has(r.out, "not")

-----------------------------------------------------------------------------
(* C23: the visited references of one handler *)

\* The step is the reference handler of the top frame starting on the
\* "$ref" of its schema (no other step is possible in such a state).
ReferenceStarting ==
    /\ Turn(H_REFERENCE)
    /\ Top.wait = 0
    /\ stack' # stack

\* C23: the visited references of a handler only grow.  A step that is not
\* the creation of a new converter never removes a path, neither when an
\* expansion ends nor between two convert calls on the same converter; and
\* the handler adds the path before it resolves the target, so the path is
\* in the set when the resolution fails and when the target is converted.
C23_OnlyGrows ==
    [][/\ NewConverter \/ visited_refs \subseteq visited_refs'
       /\ ReferenceStarting =>
              LET ref_path == Top.schema.m["$ref"] IN
              (~isinstance_list(ref_path) /\ ~isinstance_dict(ref_path)) =>
                  /\ ref_path \in visited_refs'
                  /\ Len(stack') > Len(stack) =>
                         ref_path \in stack'[Len(stack')].v0]_vars

\* Two convert calls on one converter have ended: the second started with
\* the paths the first had left and added a path of its own.
C23_Witness ==
    /\ Len(results) = 2
    /\ stack = <<>>
    /\ results[1].v1 # {}
    /\ results[1].v0 = {}
    /\ results[2].v0 = results[1].v1
    /\ results[2].v1 # results[2].v0
    /\ visited_refs = results[2].v1

-----------------------------------------------------------------------------
(* C24: the first and the later conversions of one "$ref" string *)

\* The two keys of the cyclic placeholder for ref_path.
CyclicKeys(ref_path) ==
    ("description" :> CyclicDescription(ref_path)) @@ (MARKER :> Bool(TRUE))

\* ref_path leads to a map the handler goes on to convert.
Expandable(ref_path) ==
    LET target == resolve_ref(full_spec, ref_path) IN
    /\ target # Failure
    /\ isinstance_dict(target)
    /\ ~DescriptionRaises(target)
    /\ ~DescriptionStartsWith(target, {UNRESOLVED, NOT_OBJECT})

\* The steps of the reference handler on a "$ref" string: the first time the
\* converter meets the string the handler calls convert on the target; every
\* later time it writes the two keys of the placeholder into the fragment,
\* calls nothing and adds nothing to the visited references, whether or not
\* the target can be resolved.
C24_Handler ==
    ReferenceStarting =>
        LET ref_path == Top.schema.m["$ref"] IN
        isinstance_str(ref_path) =>
            IF ref_path \in visited_refs
            THEN /\ Len(stack') = Len(stack)
                 /\ visited_refs' = visited_refs
                 /\ stack'[Len(stack)].h = H_REFERENCE
                 /\ stack'[Len(stack)].js = CyclicKeys(ref_path) @@ Top.js
            ELSE Expandable(ref_path) =>
                     /\ Len(stack') = Len(stack) + 1
                     /\ stack'[Len(stack')].schema = resolve_ref(full_spec, ref_path)

\* The convert calls that ended and whose fragment had a "$ref" string the
\* converter had met before.
LaterConversions ==
    {i \in DOMAIN results :
         /\ isinstance_dict(results[i].input)
         /\ Has(results[i].input, "$ref")
         /\ isinstance_str(results[i].input.m["$ref"])
         /\ results[i].input.m["$ref"] \in results[i].v0}

-----------------------------------------------------------------------------
(* C25: the fragment returned when the reference handler gives a placeholder *)

\* The placeholder the reference handler of the i-th ended call wrote for the
\* "$ref" string of its fragment, None when it wrote none: the cyclic one for
\* a string met before, else the one resolve_ref answered.
PlaceholderOf(r) ==
    IF ~(isinstance_dict(r.input) /\ Has(r.input, "$ref")) THEN None
    ELSE LET ref_path == r.input.m["$ref"] IN
         IF ~isinstance_str(ref_path) \/ H_REFERENCE \in r.raised THEN None
         ELSE IF ref_path \in r.v0 THEN O(CyclicKeys(ref_path))
         ELSE LET target == resolve_ref(full_spec, ref_path) IN
              IF target \in {UnresolvedPlaceholder(ref_path), NotObjectPlaceholder(ref_path)}
              THEN target ELSE None

\* C25 as stated: when the reference handler produces a placeholder, convert
\* returns it verbatim: no keyword but the placeholder's own, its own
\* description, no "(from ref: ...)" note.
C25_Original ==
    \A i \in DOMAIN results :
        PlaceholderOf(results[i]) # None =>
            results[i].out.m = PlaceholderOf(results[i]).m

-----------------------------------------------------------------------------
(* C26: the order of the handlers *)

\* The handlers among the first h that apply to the schema, in their order.
RECURSIVE ApplicableUpTo(_, _)
ApplicableUpTo(os, h) ==
    IF h = 0 THEN <<>>
    ELSE IF CanHandle(h, os) THEN Append(ApplicableUpTo(os, h - 1), h)
    ELSE ApplicableUpTo(os, h - 1)

\* C26: in every convert call on a map the handlers that apply run once
\* each in the order Reference, Composition, Object, Array, String, Number,
\* Common, and no other handler runs; Common runs on every map and is the
\* last, so a true "nullable" acts on the type the earlier handlers have
\* left, the type merged from a "$ref" target included: no handler changes
\* the type afterwards, and the type returned holds "null".
C26_HandlerOrder ==
    /\ \A n \in DOMAIN stack :
           LET f == stack[n] IN
           IF isinstance_dict(f.schema)
           THEN /\ f.ran = ApplicableUpTo(f.schema, f.h)
                /\ f.wait # 0 => /\ f.wait > f.h
                                 /\ CanHandle(f.wait, f.schema)
                                 /\ \A j \in (f.h + 1)..(f.wait - 1) :
                                        ~CanHandle(j, f.schema)
           ELSE f.ran = <<>>
    /\ \A i \in DOMAIN results :
           LET r == results[i] IN
           IF isinstance_dict(r.input)
           THEN /\ r.ran = ApplicableUpTo(r.input, H_COMMON)
                /\ r.ran[Len(r.ran)] = H_COMMON
                /\ (Truthy(Get(r.input, "nullable")) /\ Has(r.out, "type")) =>
                       \/ r.out.m["type"] = Str(<<"null">>)
                       \/ /\ isinstance_list(r.out.m["type"])
                          /\ \E k \in DOMAIN r.out.m["type"].xs :
                                 r.out.m["type"].xs[k] = Str(<<"null">>)
           ELSE r.ran = <<>>

\* A nullable reference to a string schema was converted: Reference ran,
\* then Common, which made the type merged from the target nullable.
C26_Witness ==
    \E i \in DOMAIN results :
        LET r == results[i] IN
        /\ isinstance_dict(r.input)
        /\ Get(r.input, "$ref") = RefA
        /\ Get(r.input, "nullable") = Bool(TRUE)
        /\ ~Has(r.input, "type")
        /\ r.ran = <<H_REFERENCE, H_COMMON>>
        /\ Has(r.out, "type")
        /\ r.out.m["type"] = List(<<Str(<<"string">>), Str(<<"null">>)>>)

-----------------------------------------------------------------------------
(* C27: what the operations of one document share *)

\* The schema the property name of the tool of the operation is converted
\* from: the schema of the request body for requestBody when the body has
\* one, else the schema of the last kept parameter of that name; None when
\* that parameter has a description of its own, which replaces the
\* description of the converted schema.
SourceOf(operation, name) ==
    LET kept == KeptParameters(operation) IN
    LET body == Get(operation, "requestBody") IN
    LET named == {n \in 1..Len(kept) : kept[n].m["name"] = name} IN
    IF name = REQUEST_BODY /\ UsableBody(body)
    THEN RequestBodyPlan(full_spec, body, <<>>).x
    ELSE IF named = {} THEN None
    ELSE LET param == kept[CHOOSE n \in named : \A m \in named : m <= n] IN
         IF Has(param, "description") \/ ~Has(param, "schema") THEN None
         ELSE param.m["schema"]

\* The cyclic marker is set somewhere in the value.
RECURSIVE Flagged(_)
Flagged(v) ==
    IF isinstance_dict(v)
    THEN (MARKER \in DOMAIN v.m) \/ \E key \in DOMAIN v.m : Flagged(v.m[key])
    ELSE IF isinstance_list(v) THEN \E n \in DOMAIN v.xs : Flagged(v.xs[n])
    ELSE FALSE

\* The conversion of a reference to the schema S of the documents.
ExpandedS ==
    O(("type" :> List(<<S("string")>>)) @@ ("description" :> Str(FromRef(RefS))))

\* The tools map_tools has returned, each with the operation it is for.
Returned_tools ==
    UNION {{[tool |-> mapper.outs[i].tools[j],
             operation |-> OperationAt(mapper.outs[i].mapped[j]),
             call |-> i] : j \in 1..Len(mapper.outs[i].tools)} : i \in ToolLists}

\* No property of a tool is flagged cyclic.
C27_NeverFlagged ==
    \A t \in Returned_tools : \A name \in DOMAIN t.tool.inputSchema.properties :
        ~Flagged(t.tool.inputSchema.properties[name])

\* Properties converted from the same schema are equal, within a tool and
\* from one tool to another.
C27_Alike ==
    \A t, u \in Returned_tools :
        \A a \in DOMAIN t.tool.inputSchema.properties :
            \A b \in DOMAIN u.tool.inputSchema.properties :
                (/\ t.call = u.call
                 /\ SourceOf(t.operation, a) # None
                 /\ SourceOf(t.operation, a) = SourceOf(u.operation, b))
                    => t.tool.inputSchema.properties[a] = u.tool.inputSchema.properties[b]

\* A property that refers to the schema S is its expansion, as it is in a
\* document where no other operation refers to S.
C27_Expanded ==
    \A t \in Returned_tools : \A name \in DOMAIN t.tool.inputSchema.properties :
        SourceOf(t.operation, name) = Ref(RefS)
            => t.tool.inputSchema.properties[name] = ExpandedS

\* C27 as stated: the tool of an operation is the same whatever other
\* operations and parameters the document holds: a schema that several
\* parameters, request bodies or operations refer to is fully expanded in
\* each of them, alike, as it is expanded when one operation alone refers to
\* it, and it is never flagged cyclic.
C27_Original == C27_NeverFlagged /\ C27_Alike /\ C27_Expanded

-----------------------------------------------------------------------------
(* C28: parameters and request bodies given as a "$ref" that is skipped *)

GivenAsRef(x) == isinstance_dict(x) /\ Has(x, "$ref")

\* The "$ref" of x cannot be resolved: resolving it raises or answers a
\* placeholder.
Unresolvable(x) ==
    LET target == resolve_ref(full_spec, x.m["$ref"]) IN
    IF target.k = "raise" THEN TRUE
    ELSE DescriptionStartsWith(target, {UNRESOLVED, NOT_OBJECT})

\* The map is nothing but a reference.
AnotherReference(target) == DOMAIN target.m = {"$ref"}

\* A parameter given as a "$ref" that cannot be resolved or that leads to
\* a map without a name, with an unsupported "in" or to another reference.
SkippedParameter(x) ==
    /\ GivenAsRef(x)
    /\ \/ Unresolvable(x)
       \/ LET target == resolve_ref(full_spec, x.m["$ref"]) IN
          \/ ~Truthy(Get(target, "name"))
          \/ Get(target, "in") \notin {S("path"), S("query"), S("header")}
          \/ AnotherReference(target)

\* A request body given as a "$ref" that cannot be resolved or that leads
\* to a map without content or to another reference.
SkippedBody(x) ==
    /\ GivenAsRef(x)
    /\ \/ Unresolvable(x)
       \/ LET target == resolve_ref(full_spec, x.m["$ref"]) IN
          ~Has(target, "content") \/ AnotherReference(target)

HasSkipped(operation) ==
    \/ \E n \in 1..Len(ParametersOf(operation)) :
           SkippedParameter(ParametersOf(operation)[n])
    \/ SkippedBody(Get(operation, "requestBody"))

\* Nothing else makes the mapping of the operation raise: the names of the
\* kept parameters can be keys and the required names can be ordered.
RestIsFine(operation) ==
    LET ps == ParametersOf(operation) IN
    /\ \A n \in 1..Len(ps) :
           KeptParameter(ps[n]) => Hashable(Deref(ps[n]).m["name"])
    /\ Orderable(MarkedRequired(operation))

\* The tool holds what the kept parameters and a usable body give it, and
\* nothing more.
OnlyTheRest(tool, operation) ==
    \E kept \in {KeptParameters(operation)} :
    \E ps \in {ParametersOf(operation)} :
    \E usable \in {UsableBody(Get(operation, "requestBody"))} :
    \E marked \in {MarkedRequired(operation)} :
    /\ \A n \in 1..Len(ps) : SkippedParameter(ps[n]) => ~KeptParameter(ps[n])
    /\ SkippedBody(Get(operation, "requestBody")) => ~usable
    /\ tool._original_parameters
           = [n \in 1..Len(kept) |->
                 [name |-> kept[n].m["name"], in |-> kept[n].m["in"],
                  required |-> GetOrFalse(kept[n], "required")]]
    /\ DOMAIN tool.inputSchema.properties
           = {kept[n].m["name"] : n \in 1..Len(kept)}
                 \cup (IF usable THEN {REQUEST_BODY} ELSE {})
    /\ \A a \in 1..Len(tool.inputSchema.required) :
           tool.inputSchema.required[a] \in marked

\* The entries of the document that have a skipped reference.
SkippedEntries ==
    UNION {{entries[n] : n \in {k \in 1..Len(entries) :
                                   HasSkipped(OperationAt(entries[k]))}} :
              entries \in {Entries}}

\* C28 as stated: a parameter or request body given as a "$ref" that cannot
\* be resolved, or that leads to something unusable, is skipped without
\* raising: the tool of the operation is still emitted, with its other
\* parameters, and the skipped unit adds nothing to properties, required
\* or the provenance.
C28_Original ==
    ToolLists # {} =>
    \A entry \in SkippedEntries : \A i \in ToolLists :
        LET out == mapper.outs[i] IN
        LET operation == OperationAt(entry) IN
        RestIsFine(operation) =>
            \E j \in 1..Len(out.tools) :
                /\ out.mapped[j] = entry
                /\ OnlyTheRest(out.tools[j], operation)
                /\ SkippedBody(Get(operation, "requestBody"))
                       => out.tools[j]._original_request_body = None

\* Resolving the "$ref" of a parameter or of the request body raises.
SomeRefRaises(operation) ==
    \/ \E n \in 1..Len(ParametersOf(operation)) : RefRaises(ParametersOf(operation)[n])
    \/ RefRaises(Get(operation, "requestBody"))

\* C28, amended: a parameter or request body given as a "$ref" string that
\* cannot be resolved, or that leads to something unusable, is skipped
\* without raising: the tool is still emitted with its other parameters and
\* the skipped unit adds nothing to properties, required or the parameter
\* provenance; but a skipped body whose target is marked required is
\* recorded in the provenance as a required body without content type, and
\* a "$ref" that is no string makes the mapping raise, so that the
\* operation has no tool.
C28_Amended ==
    ToolLists # {} =>
    \A entry \in SkippedEntries : \A i \in ToolLists :
        LET out == mapper.outs[i] IN
        LET operation == OperationAt(entry) IN
        LET body == Get(operation, "requestBody") IN
        IF SomeRefRaises(operation)
        THEN /\ \A j \in 1..Len(out.mapped) : out.mapped[j] # entry
             /\ \E j \in 1..Len(out.failed) : out.failed[j] = entry
        ELSE RestIsFine(operation) =>
                 \E j \in 1..Len(out.tools) :
                     /\ out.mapped[j] = entry
                     /\ OnlyTheRest(out.tools[j], operation)
                     /\ SkippedBody(body)
                            => out.tools[j]._original_request_body
                                   = IF Truthy(GetOrFalse(Deref(body), "required"))
                                     THEN [required |-> Bool(TRUE), content_type |-> None]
                                     ELSE None

\* map_tools has returned the tool of an operation whose second parameter
\* refers to another reference and whose body refers to a required body
\* without content: the tool has the two other parameters only.
C28_Witness ==
    \E i \in ToolLists : \E j \in 1..Len(mapper.outs[i].tools) :
        LET tool == mapper.outs[i].tools[j] IN
        LET operation == OperationAt(mapper.outs[i].mapped[j]) IN
        /\ Len(ParametersOf(operation)) = 3
        /\ ParametersOf(operation)[2] = Ref(Str(<<"#", "/", "defs", "/", "PP">>))
        /\ SkippedParameter(ParametersOf(operation)[2])
        /\ Get(operation, "requestBody") = Ref(Str(<<"#", "/", "defs", "/", "RN">>))
        /\ SkippedBody(Get(operation, "requestBody"))
        /\ DOMAIN tool.inputSchema.properties = {S("a"), S("q")}
        /\ tool.inputSchema.required = <<S("a")>>
        /\ Len(tool._original_parameters) = 2
        /\ tool._original_request_body = [required |-> Bool(TRUE), content_type |-> None]

-----------------------------------------------------------------------------
(* C29: the input schema of a tool *)

\* The input schema is an object schema whose required names are all
\* properties.
WellFormedInput(tool) ==
    /\ tool.inputSchema.type = Str(<<"object">>)
    /\ DOMAIN tool.inputSchema.required = 1..Len(tool.inputSchema.required)
    /\ \A a \in 1..Len(tool.inputSchema.required) :
           tool.inputSchema.required[a] \in DOMAIN tool.inputSchema.properties

\* C29: in every tool map_tools returns, and in every tool it has built so
\* far, inputSchema has type object, a properties map and a required list,
\* and every name in required is a key of properties; while an operation is
\* being mapped a name is in required only together with its property.
C29_RequiredAreProperties ==
    /\ \A i \in ToolLists : \A j \in 1..Len(mapper.outs[i].tools) :
           WellFormedInput(mapper.outs[i].tools[j])
    /\ \A j \in 1..Len(mapper.mcp_tools) : WellFormedInput(mapper.mcp_tools[j])
    /\ mapper.op # NoOp =>
           \A a \in 1..Len(mapper.op.required) :
               mapper.op.required[a] \in DOMAIN mapper.op.properties

\* map_tools has returned a tool that requires a parameter and the request
\* body, both of them properties.
C29_Witness ==
    \E i \in ToolLists : \E j \in 1..Len(mapper.outs[i].tools) :
        LET tool == mapper.outs[i].tools[j] IN
        /\ WellFormedInput(tool)
        /\ Len(tool.inputSchema.required) >= 2
        /\ Requires(tool, REQUEST_BODY)
        /\ \E a \in 1..Len(tool.inputSchema.required) :
               tool.inputSchema.required[a] # REQUEST_BODY

-----------------------------------------------------------------------------
(* C30: map_tools called again *)

\* C30: every call of map_tools on one mapper has the same outcome: the
\* calls that return a tool list return equal lists, whatever the earlier
\* calls have converted, and a call raises only if every call does.
C30_Repeatable ==
    \A i, j \in 1..Len(mapper.outs) :
        /\ mapper.outs[i].k = mapper.outs[j].k
        /\ mapper.outs[i].k = "tools" => mapper.outs[i].tools = mapper.outs[j].tools

\* map_tools has returned twice, each time the same tool, whose request
\* body is the expansion of a reference.
C30_Witness ==
    /\ Len(mapper.outs) >= 2
    /\ mapper.calls >= 2
    /\ mapper.pc = "idle"
    /\ mapper.outs[1].k = "tools"
    /\ mapper.outs[2].k = "tools"
    /\ Len(mapper.outs[1].tools) = 1
    /\ mapper.outs[2].tools = mapper.outs[1].tools
    /\ LET tool == mapper.outs[2].tools[1] IN
       /\ REQUEST_BODY \in DOMAIN tool.inputSchema.properties
       /\ SourceOf(OperationAt(mapper.outs[2].mapped[1]), REQUEST_BODY) = Ref(RefA)
       /\ ~Flagged(tool.inputSchema.properties[REQUEST_BODY])
       /\ Get(tool.inputSchema.properties[REQUEST_BODY], "type") = Str(<<"object">>)

====
